---- MODULE Spec2Model ----
(***************************************************************************)
(* Job Execution & Lifecycle Supervisor of autobuild_onetree.              *)
(*                                                                         *)
(* One job is followed through submission, launch, completion watching,    *)
(* stop and retry (specifications Spec and FairSpec); the writers of its   *)
(* job.json (SpecFile), the collection of its artifacts (SpecArt) and the  *)
(* retention sweep over the jobs table (SpecSweep) are followed apart.     *)
(* Nullable columns and JSON keys are sequences: <<>> is NULL / absent,    *)
(* <<v>> is the value v.                                                   *)
(***************************************************************************)
EXTENDS Integers, Sequences, FiniteSets, TLC

VARIABLES
    row,         \* the job's row in table jobs (db.py)
    doc,         \* <jobs_root>/<id>/job.json
    log,         \* <jobs_root>/<id>/logs/build.log: how often each line was appended
    proc,        \* OS processes spawned for the job, by pid
    statusFile,  \* <jobs_root>/<id>/status.json, written by the entrypoint
    exitFile,    \* <jobs_root>/<id>/exit_code, written by the entrypoint
    run,         \* per launch: position of start_job_runner / poll_job
    stp,         \* the thread executing jobs.stop_job
    rty,         \* the thread executing jobs.retry_job
    dirent,      \* directory entries job.json and job.json.tmp: inode number, 0 if absent
    inode,       \* content of each inode: <<>> empty (truncated), <<c>> a whole document
    specLock,    \* _spec_locks[job_id]: the thread holding it, 0 if free
    wr,          \* the threads writing job.json
    tree,        \* files of the job directory outside artifacts/
    artifacts,   \* names of the files in <jobs_root>/<id>/artifacts
    ncollect,    \* collect_artifacts calls made
    jobsTab,     \* table jobs and the job directories, by job id
    swp,         \* the housekeeping sweep
    store,       \* table jobs, the columns update_job_status writes, by job id
    job,         \* one job: its row, its directory and the work pending for it
    hk,          \* the housekeeping sweep that visits that job
    git,         \* one call of setup_job_git_env: its arguments and what it wrote
    adir,        \* the artifacts directory with its files' contents, and the calls made
    host         \* several jobs: the process table, the rows and the recorded pids

lifeVars == <<row, doc, log, proc, statusFile, exitFile, run, stp, rty>>

fileVars == <<dirent, inode, specLock, wr>>

artVars == <<tree, artifacts, ncollect>>

sweepVars == <<jobsTab, swp>>

storeVars == <<store>>

destroyVars == <<job, hk>>

gitVars == <<git>>

copyVars == <<adir>>

killVars == <<host>>

vars ==
    <<lifeVars, fileVars, artVars, sweepVars, storeVars, destroyVars, gitVars, copyVars,
      killVars>>

----------------------------------------------------------------------------
(* Bounds *)

MaxLaunch == 2      \* launches of the job: the submission's and the retries'
MaxWriters == 3     \* threads writing job.json
MaxCollect == 11    \* collect_artifacts calls on one job
MaxJobs == 2        \* rows of table jobs
MaxSweeps == 2
MaxScans == 2       \* collect_artifacts calls on a directory that already has files
\* liveness polls of one stop_job wait (range(50) in the code)
MaxPolls == 2      \* runs of the housekeeping sweep

(* Program constants *)

STATUS_PENDING == "pending"
STATUS_RUNNING == "running"
STATUS_SUCCESS == "success"
STATUS_FAILED == "failed"

ExitLaunchFailure == -1
ExitUserStop == -9
ExitNoCredentials == 2
SIGTERM == 15
SIGKILL == 9

Pids == 1..MaxLaunch

----------------------------------------------------------------------------
(* JobStore: db.py *)

NoRow == [present |-> FALSE, status |-> "none", started_at |-> <<>>,
          finished_at |-> <<>>, exit_code |-> <<>>]

\* INSERT INTO jobs ... status = pending, created_at = now
InsertRow == [present |-> TRUE, status |-> STATUS_PENDING, started_at |-> <<>>,
              finished_at |-> <<>>, exit_code |-> <<>>]

\* (variant) SET col = ?
COALESCE_overwrite(new, old) == new

COALESCE(new, old) == IF new = <<>> THEN old ELSE new

\* UPDATE jobs SET col = COALESCE(?, col) ... WHERE id = ?
update_job_status(r, status, started_at, finished_at, exit_code) ==
    IF ~r.present THEN r
    ELSE [r EXCEPT !.status = IF status = <<>> THEN @ ELSE status[1],
                   !.started_at = COALESCE(started_at, @),
                   !.finished_at = COALESCE(finished_at, @),
                   !.exit_code = COALESCE(exit_code, @)]

----------------------------------------------------------------------------
(* JobSpecDocument: job.json *)

NoDoc == [present |-> FALSE, runner_pid |-> <<>>, status |-> <<>>,
          stopped_at |-> <<>>, last_retry_at |-> <<>>]

\* load_job_spec(job_id) or {}: a missing file reads as the empty map
load_job_spec(d) == IF d.present THEN d ELSE NoDoc

\* the lock-guarded read-modify-write, seen from outside the lock
_update_job_spec(d, data) == [data EXCEPT !.present = TRUE]

\* spec = {..., "status": STATUS_PENDING, ...}; jobs.write_job_spec(job_id, spec)
write_job_spec == [NoDoc EXCEPT !.present = TRUE, !.status = <<STATUS_PENDING>>]

\* (variant) the launcher records the status and not the pid
_mark_running_nopid(data, pid) == [data EXCEPT !.status = <<STATUS_RUNNING>>]

_mark_running(data, pid) ==
    [data EXCEPT !.runner_pid = <<pid>>, !.status = <<STATUS_RUNNING>>]

\* (variant) the stop leaves the recorded pid in the document
_mark_stopped_keeppid(data) ==
    [data EXCEPT !.status = <<STATUS_FAILED>>, !.stopped_at = <<"stop">>]

_mark_stopped(data) ==
    [data EXCEPT !.runner_pid = <<>>, !.status = <<STATUS_FAILED>>,
                 !.stopped_at = <<"stop">>]

_mark_retry(data) ==
    [data EXCEPT !.runner_pid = <<>>, !.status = <<STATUS_PENDING>>,
                 !.last_retry_at = <<"retry">>]

----------------------------------------------------------------------------
(* The external entrypoint run_job.sh and its completion signals *)

\* wrote: the completion signals this process has written, kept while it runs
NoProc == [st |-> "none", rc |-> <<>>, wrote |-> {}]

\* what the entrypoint may leave in status.json; data.get(...) reads an
\* absent "exit_code" or "finished_at" key as None
StatusContents ==
    { [valid |-> TRUE, status |-> STATUS_SUCCESS, exit_code |-> <<0>>, finished_at |-> <<"file">>],
      [valid |-> TRUE, status |-> STATUS_SUCCESS, exit_code |-> <<>>, finished_at |-> <<>>],
      [valid |-> TRUE, status |-> STATUS_FAILED, exit_code |-> <<1>>, finished_at |-> <<"file">>],
      [valid |-> TRUE, status |-> STATUS_RUNNING, exit_code |-> <<>>, finished_at |-> <<>>],
      [valid |-> FALSE, status |-> "", exit_code |-> <<>>, finished_at |-> <<>>] }

\* what the entrypoint may leave in exit_code: an integer or unparsable text
ExitContents ==
    { [valid |-> TRUE, value |-> 0], [valid |-> TRUE, value |-> 1],
      [valid |-> FALSE, value |-> 0] }

ExitCodes == {0, 1}

Terminal(s) == s \in {STATUS_SUCCESS, STATUS_FAILED}

\* os.kill(pid, 0) succeeds: the pid is in the process table (running or
\* exited and not yet reaped by Popen.poll)
_is_alive(pid) == proc[pid].st \in {"running", "zombie"}

----------------------------------------------------------------------------
(* Initial state: nothing submitted *)

\* the lines the supervisor appends to build.log
LogLines == {"token_missing", "unexpected_exit", "stopped", "retry"}

\* with log_path.open("a") as fp: fp.write(line)
LogAppend(l, line) == [l EXCEPT ![line] = @ + 1]

NoOutcome == [status |-> <<>>, exit_code |-> <<>>, finished_at |-> <<>>]

\* watchers: the poll_job tasks and threads this launch has started
\* tier: the branch of poll_job that is finalizing
IdleRun == [pc |-> "idle", outcome |-> NoOutcome, collected |-> FALSE, watchers |-> 0,
            tier |-> "none"]

\* polls: the liveness polls done in the current wait loop
IdleStop == [pc |-> "idle", todo |-> {}, cur |-> 0, stopped |-> FALSE,
             ret |-> <<>>, live |-> {}, polls |-> 0]

IdleRetry == [pc |-> "idle", ret |-> <<>>, k |-> 0]

LifeInit ==
    /\ row = NoRow
    /\ doc = NoDoc
    /\ log = [l \in LogLines |-> 0]
    /\ proc = [p \in Pids |-> NoProc]
    /\ statusFile = <<>>
    /\ exitFile = <<>>
    /\ run = [p \in Pids |-> IdleRun]
    /\ stp = IdleStop
    /\ rty = IdleRetry

----------------------------------------------------------------------------
(* Submission: routes/jobs.py create_job (POST /new), after validation *)

SubmitRow(haveCreds, writeOk) ==
    IF haveCreds /\ ~writeOk
    THEN update_job_status(InsertRow, <<STATUS_FAILED>>, <<>>, <<"sup">>,
                           <<ExitLaunchFailure>>)
    ELSE InsertRow

SubmitDoc(haveCreds, writeOk) ==
    IF haveCreds /\ writeOk THEN write_job_spec ELSE NoDoc

Submit ==
    /\ ~row.present
    /\ \A p \in Pids : run[p].pc = "idle"
    /\ \E haveCreds \in BOOLEAN, writeOk \in BOOLEAN :
         /\ row' = SubmitRow(haveCreds, writeOk)
         /\ doc' = SubmitDoc(haveCreds, writeOk)
         /\ run' = IF haveCreds /\ writeOk
                   THEN [run EXCEPT ![1].pc = "l_begin"]
                   ELSE run
    /\ UNCHANGED <<log, proc, statusFile, exitFile, stp, rty>>
    /\ UNCHANGED <<fileVars, artVars, sweepVars, storeVars, destroyVars, gitVars, copyVars, killVars>>

----------------------------------------------------------------------------
(* RunnerLauncher: jobs.start_job_runner *)

LauncherPcs == {"l_begin", "l_spawn", "l_mark"}

\* start_job_runner returns to retry_job, which returns True
LauncherReturns(k) ==
    IF rty.pc = "r_wait" /\ rty.k = k
    THEN [rty EXCEPT !.pc = "idle", !.ret = <<TRUE>>]
    ELSE rty

\* update_job_status(job_id, STATUS_RUNNING, started_at=started_at)
LaunchBegin(k) ==
    /\ run[k].pc = "l_begin"
    /\ row' = update_job_status(row, <<STATUS_RUNNING>>, <<"launch">>, <<>>, <<>>)
    /\ run' = [run EXCEPT ![k].pc = "l_spawn"]
    /\ UNCHANGED <<doc, log, proc, statusFile, exitFile, stp, rty>>
    /\ UNCHANGED <<fileVars, artVars, sweepVars, storeVars, destroyVars, gitVars, copyVars, killVars>>

TokensMissingRow(r) ==
    update_job_status(r, <<STATUS_FAILED>>, <<>>, <<"sup">>, <<ExitNoCredentials>>)

\* (variant) the handler logs the failure and leaves the row as it is
SpawnFailedRow_unwritten(r) == r

SpawnFailedRow(r) ==
    update_job_status(r, <<STATUS_FAILED>>, <<>>, <<"sup">>, <<ExitLaunchFailure>>)

\* what the owner's token file may give for "primary" and "secondary":
\* nothing, blanks only, or a token
TokenTexts == {"", " ", "t"}

\* (token_data.get(...) or "").strip()
strip(text) == IF text = " " THEN "" ELSE text

\* (variant) the launcher never finds the tokens missing
TokensMissing_never(primary_token, secondary_token) == FALSE

\* if not primary_token and not secondary_token
TokensMissing(primary_token, secondary_token) ==
    primary_token = "" /\ secondary_token = ""

\* A host text: an optional scheme "https://", a name, an optional trailing
\* slash. NoHost is the empty text (and the attribute that is not there).
Host(scheme, name, slash) == [scheme |-> scheme, name |-> name, slash |-> slash]

NoHost == Host(FALSE, "", FALSE)

\* parsed = urlparse(host); if parsed.scheme and parsed.netloc: host =
\* parsed.netloc; host = host.strip().rstrip("/"). A scheme with no name
\* ("https://") keeps its "https:".
NormHost(h) ==
    IF h.scheme /\ h.name # "" THEN h.name
    ELSE IF h.scheme THEN "https:"
    ELSE h.name

\* add_entry: nothing is appended when host, username or token is empty or
\* the host is empty after normalization; else the line
\* https://<username>:<token>@<host> is appended to the list
add_entry(entries, host_raw, username, token) ==
    IF host_raw = NoHost \/ username = "" \/ token = "" THEN entries
    ELSE IF NormHost(host_raw) = "" THEN entries
    ELSE Append(entries, <<strip(username), strip(token), NormHost(host_raw)>>)

\* os.getenv("AUTOBUILD_GIT_HOST", "gitlab.example.com")
get_git_host == Host(FALSE, "gitlab.example.com", FALSE)

\* the lines setup_job_git_env writes to .git-credentials: the three triples
\* of the settings in order, and the fallback only when they gave no line
setup_job_git_env(settings, fallback_token, fallback_username) ==
    LET e1 == add_entry(<<>>, Host(TRUE, "git.ami.com", FALSE),
                        settings.gitlab_username_primary, settings.gitlab_token_primary)
        e2 == add_entry(e1, Host(TRUE, "git.ami.com.tw", FALSE),
                        settings.gitlab_username_secondary, settings.gitlab_token_secondary)
        e3 == add_entry(e2, settings.gitlab_host, settings.gitlab_username,
                        settings.gitlab_token)
    IN IF e3 = <<>> /\ fallback_token # ""
       THEN add_entry(e3, get_git_host,
                      IF fallback_username # "" THEN fallback_username ELSE "oauth2",
                      fallback_token)
       ELSE e3

\* return {} when no line was written, else {"XDG_CONFIG_HOME": ...}
GitEnv(entries) == IF entries = <<>> THEN {} ELSE {"XDG_CONFIG_HOME"}

\* the settings start_job_runner builds: the owner as every username, no
\* gitlab_host attribute, gitlab_token = primary_token or secondary_token
LauncherSettings(primary_token, secondary_token) ==
    [gitlab_username_primary |-> "owner", gitlab_token_primary |-> primary_token,
     gitlab_username_secondary |-> "owner", gitlab_token_secondary |-> secondary_token,
     gitlab_host |-> NoHost, gitlab_username |-> "owner",
     gitlab_token |-> IF primary_token # "" THEN primary_token ELSE secondary_token]

\* the lines written for a launch: setup_job_git_env(job_root, settings,
\* fallback_token=primary_token or secondary_token, fallback_username=owner)
LauncherEntries(primary_token, secondary_token) ==
    setup_job_git_env(LauncherSettings(primary_token, secondary_token),
                      IF primary_token # "" THEN primary_token ELSE secondary_token,
                      "owner")

\* start_job_runner from load_user_tokens to the Popen call, for one reading
\* of the token file and one outcome of Popen
LaunchSpawnWith(k, primary, secondary, spawnOk) ==
    /\ run[k].pc = "l_spawn"
    /\ LET tokensOk == ~TokensMissing(strip(primary), strip(secondary)) IN
         IF ~tokensOk
         THEN /\ log' = LogAppend(log, "token_missing")
              /\ row' = TokensMissingRow(row)
              /\ run' = [run EXCEPT ![k].pc = "end"]
              /\ rty' = LauncherReturns(k)
              /\ proc' = proc
         ELSE IF ~spawnOk
         THEN /\ row' = SpawnFailedRow(row)
              /\ run' = [run EXCEPT ![k].pc = "end"]
              /\ rty' = LauncherReturns(k)
              /\ UNCHANGED <<log, proc>>
         ELSE /\ proc' = [proc EXCEPT ![k] = [st |-> "running", rc |-> <<>>, wrote |-> {}]]
              /\ run' = [run EXCEPT ![k].pc = "l_mark"]
              /\ UNCHANGED <<row, log, rty>>
    /\ UNCHANGED <<doc, statusFile, exitFile, stp>>
    /\ UNCHANGED <<fileVars, artVars, sweepVars, storeVars, destroyVars, gitVars, copyVars, killVars>>

\* load_user_tokens(owner) ... subprocess.Popen(cmd, ..., start_new_session=True)
LaunchSpawn(k) ==
    \E primary \in TokenTexts, secondary \in TokenTexts, spawnOk \in BOOLEAN :
        LaunchSpawnWith(k, primary, secondary, spawnOk)

\* the watchers started after _schedule_poll_job: a task of the running
\* event loop, or, get_running_loop having raised RuntimeError, a daemon
\* thread with a loop of its own
_schedule_poll_job(started, hasLoop) ==
    IF hasLoop THEN started + 1 ELSE started + 1

\* _update_job_spec(job_id, _mark_running); _schedule_poll_job(job_id, proc=proc)
LaunchMarkWith(k, hasLoop) ==
    /\ run[k].pc = "l_mark"
    /\ doc' = _update_job_spec(doc, _mark_running(load_job_spec(doc), k))
    /\ run' = [run EXCEPT ![k].pc = "w_poll",
                          ![k].watchers = _schedule_poll_job(@, hasLoop)]
    /\ rty' = LauncherReturns(k)
    /\ UNCHANGED <<row, log, proc, statusFile, exitFile, stp>>
    /\ UNCHANGED <<fileVars, artVars, sweepVars, storeVars, destroyVars, gitVars, copyVars, killVars>>

LaunchMark(k) == \E hasLoop \in BOOLEAN : LaunchMarkWith(k, hasLoop)

----------------------------------------------------------------------------
(* CompletionWatcher: jobs.poll_job *)

\* (variant) the process branch takes a return code of 0 for a success
ExitedEarlyStatus_byrc(rc) == IF rc = <<0>> THEN STATUS_SUCCESS ELSE STATUS_FAILED

\* update_job_status(job_id, STATUS_FAILED, ..., exit_code=proc.returncode)
ExitedEarlyStatus(rc) == STATUS_FAILED

\* One tick's reading of the three signals, in the order of the if/elif chain.
\* tier = "none": nothing decided, the watcher sleeps and polls again.
PollDecision(sf, ef, p) ==
    IF sf # <<>>
    THEN IF sf[1].valid /\ Terminal(sf[1].status)
         THEN [tier |-> "status",
               outcome |-> [status |-> <<sf[1].status>>, exit_code |-> sf[1].exit_code,
                            finished_at |-> sf[1].finished_at]]
         ELSE [tier |-> "none", outcome |-> NoOutcome]
    ELSE IF ef # <<>>
    THEN LET exit_code == IF ef[1].valid THEN ef[1].value ELSE -1
         IN [tier |-> "exit",
             outcome |-> [status |-> IF exit_code = 0 THEN <<STATUS_SUCCESS>>
                                                       ELSE <<STATUS_FAILED>>,
                          exit_code |-> <<exit_code>>, finished_at |-> <<"watch">>]]
    ELSE IF p.st = "zombie"
    THEN [tier |-> "proc",
          outcome |-> [status |-> <<ExitedEarlyStatus(p.rc)>>, exit_code |-> p.rc,
                       finished_at |-> <<"watch">>]]
    ELSE [tier |-> "none", outcome |-> NoOutcome]

\* (variant) the watcher finalizes without calling collect_artifacts
Collects_never(o) == FALSE

\* if status == STATUS_SUCCESS: collect_artifacts(job_id)
Collects(o) == o.status = <<STATUS_SUCCESS>>

\* A tick that decides: on success collect_artifacts runs; on process exit
\* proc.poll() has reaped the child and the log gets its note.
WatchTick(k) ==
    /\ run[k].pc = "w_poll"
    /\ LET d == PollDecision(statusFile, exitFile, proc[k]) IN
         /\ d.tier # "none"
         /\ run' = [run EXCEPT ![k].outcome = d.outcome, ![k].pc = "w_write",
                               ![k].collected = Collects(d.outcome),
                               ![k].tier = d.tier]
         /\ proc' = IF d.tier = "proc"
                    THEN [proc EXCEPT ![k].st = "reaped", ![k].rc = <<>>] ELSE proc
         /\ log' = IF d.tier = "proc" THEN LogAppend(log, "unexpected_exit") ELSE log
    /\ UNCHANGED <<row, doc, statusFile, exitFile, stp, rty>>
    /\ UNCHANGED <<fileVars, artVars, sweepVars, storeVars, destroyVars, gitVars, copyVars, killVars>>

WatchRow(r, o) == update_job_status(r, o.status, <<>>, o.finished_at, o.exit_code)

\* (variant) _notify_job_status without the try around send_job_notification
_notify_job_status_unguarded(r, getOk, sendOk) ==
    IF ~getOk \/ ~r.present THEN "skipped"
    ELSE IF sendOk THEN "sent" ELSE "raised"

\* How _notify_job_status ends. getOk: get_job does not raise; sendOk:
\* send_job_notification does not raise. Both failures are caught.
_notify_job_status(r, getOk, sendOk) ==
    IF ~getOk \/ ~r.present THEN "skipped"
    ELSE IF sendOk THEN "sent" ELSE "failed"

\* Where poll_job goes after the notification: it returns; an exception in
\* the status branch would be caught by that branch's except and the loop
\* would go on, in the other branches it would leave poll_job.
AfterNotify(tier, notified) ==
    IF notified # "raised" THEN "end"
    ELSE IF tier = "status" THEN "w_poll" ELSE "crashed"

\* the ways the notification of a row can end, over its two fault inputs
NotifyResults(r) ==
    {_notify_job_status(r, getOk, sendOk) : getOk \in BOOLEAN, sendOk \in BOOLEAN}

\* update_job_status(job_id, status, finished_at=..., exit_code=...);
\* _notify_job_status(job_id, status); return
WatchWrite(k) ==
    /\ run[k].pc = "w_write"
    /\ row' = WatchRow(row, run[k].outcome)
    /\ \E pc \in {AfterNotify(run[k].tier, n) : n \in NotifyResults(row')} :
         run' = [run EXCEPT ![k].pc = pc, ![k].outcome = NoOutcome, ![k].tier = "none"]
    /\ UNCHANGED <<doc, log, proc, statusFile, exitFile, stp, rty>>
    /\ UNCHANGED <<fileVars, artVars, sweepVars, storeVars, destroyVars, gitVars, copyVars, killVars>>

----------------------------------------------------------------------------
(* The entrypoint's own steps *)

ProcWriteStatus(k) ==
    /\ proc[k].st = "running"
    /\ \/ statusFile = <<>>
       \/ /\ statusFile # <<>>
          /\ statusFile[1].valid
          /\ statusFile[1].status = STATUS_RUNNING
    /\ \E c \in StatusContents : statusFile' = <<c>>
    /\ statusFile' # statusFile
    /\ proc' = [proc EXCEPT ![k].wrote = @ \cup {"status"}]
    /\ UNCHANGED <<row, doc, log, exitFile, run, stp, rty>>
    /\ UNCHANGED <<fileVars, artVars, sweepVars, storeVars, destroyVars, gitVars, copyVars, killVars>>

ProcWriteExit(k) ==
    /\ proc[k].st = "running"
    /\ exitFile = <<>>
    /\ \E c \in ExitContents : exitFile' = <<c>>
    /\ proc' = [proc EXCEPT ![k].wrote = @ \cup {"exit"}]
    /\ UNCHANGED <<row, doc, log, statusFile, run, stp, rty>>
    /\ UNCHANGED <<fileVars, artVars, sweepVars, storeVars, destroyVars, gitVars, copyVars, killVars>>

\* the process ends by itself, or by the SIGTERM stop_job has sent and waits on
ProcExit(k) ==
    /\ proc[k].st = "running"
    /\ \E rc \in ExitCodes \cup (IF stp.pc = "s_wait" /\ stp.cur = k THEN {-SIGTERM} ELSE {}) :
         proc' = [proc EXCEPT ![k].st = "zombie", ![k].rc = <<rc>>, ![k].wrote = {}]
    /\ UNCHANGED <<row, doc, log, statusFile, exitFile, run, stp, rty>>
    /\ UNCHANGED <<fileVars, artVars, sweepVars, storeVars, destroyVars, gitVars, copyVars, killVars>>

----------------------------------------------------------------------------
(* StopController: jobs.stop_job, called by POST /jobs/{id}/stop *)

\* pgrep -f / ps -eo pid,args: the job's runner processes that are running
_find_runner_pids == {p \in Pids : proc[p].st = "running"}

\* pids = {spec runner_pid} | _find_runner_pids(job_id)
StopPids(spec) ==
    (IF spec.runner_pid # <<>> THEN {spec.runner_pid[1]} ELSE {}) \cup _find_runner_pids

\* (variant) stop_job without its "if not pids: return False"
StopBegin_noreturn(pids) ==
    IF pids = {}
    THEN [IdleStop EXCEPT !.pc = "s_db", !.stopped = TRUE]
    ELSE [IdleStop EXCEPT !.pc = "s_term", !.todo = pids,
                          !.live = IF row.status = STATUS_RUNNING
                                   THEN _find_runner_pids ELSE {}]

\* what stop_job does once its target set is known: nothing and False when the
\* set is empty, else the signalling loop
StopBegin(pids) ==
    IF pids = {}
    THEN [IdleStop EXCEPT !.ret = <<FALSE>>]
    ELSE [IdleStop EXCEPT !.pc = "s_term", !.todo = pids,
                          !.live = IF row.status = STATUS_RUNNING
                                   THEN _find_runner_pids ELSE {}]

StopCall ==
    /\ stp.pc = "idle"
    /\ row.present
    /\ row.status \in {STATUS_RUNNING, STATUS_PENDING}
    /\ stp' = StopBegin(StopPids(load_job_spec(doc)))
    /\ UNCHANGED <<row, doc, log, proc, statusFile, exitFile, run, rty>>
    /\ UNCHANGED <<fileVars, artVars, sweepVars, storeVars, destroyVars, gitVars, copyVars, killVars>>

\* the for loop moves to its next pid, or ends: "if stopped:" / "return stopped"
StopAdvance(s) ==
    IF s.todo # {} THEN [s EXCEPT !.pc = "s_term", !.cur = 0, !.polls = 0]
    ELSE IF s.stopped THEN [s EXCEPT !.pc = "s_db", !.cur = 0, !.polls = 0]
    ELSE [s EXCEPT !.pc = "idle", !.cur = 0, !.polls = 0, !.ret = <<FALSE>>]

\* _kill_with_signal(pid, signal.SIGTERM); ProcessLookupError: continue
StopTerm ==
    /\ stp.pc = "s_term"
    /\ \E pid \in stp.todo :
         IF _is_alive(pid)
         THEN stp' = [stp EXCEPT !.pc = "s_wait", !.cur = pid, !.todo = @ \ {pid}]
         ELSE stp' = StopAdvance([stp EXCEPT !.todo = @ \ {pid}])
    /\ UNCHANGED <<row, doc, log, proc, statusFile, exitFile, run, rty>>
    /\ UNCHANGED <<fileVars, artVars, sweepVars, storeVars, destroyVars, gitVars, copyVars, killVars>>

\* (variant) the wait loop escalates at its first poll that finds the pid alive
StopPoll_impatient(s, alive) ==
    IF ~alive THEN StopAdvance([s EXCEPT !.stopped = TRUE])
    ELSE [s EXCEPT !.pc = "s_kill", !.polls = @ + 1]

\* for _ in range(50): time.sleep(0.1); if not _is_alive(pid): break
\* One poll: the pid is gone (break, stopped = True), or it is alive and the
\* loop goes on, or it is alive at the last poll and the else clause runs.
StopPoll(s, alive) ==
    IF ~alive THEN StopAdvance([s EXCEPT !.stopped = TRUE])
    ELSE IF s.polls + 1 < MaxPolls THEN [s EXCEPT !.polls = @ + 1]
    ELSE [s EXCEPT !.pc = "s_kill", !.polls = @ + 1]

StopWait ==
    /\ stp.pc = "s_wait"
    /\ stp' = StopPoll(stp, _is_alive(stp.cur))
    /\ UNCHANGED <<row, doc, log, proc, statusFile, exitFile, run, rty>>
    /\ UNCHANGED <<fileVars, artVars, sweepVars, storeVars, destroyVars, gitVars, copyVars, killVars>>

\* _kill_with_signal(pid, signal.SIGKILL); stopped = True
StopKill ==
    /\ stp.pc = "s_kill"
    /\ IF _is_alive(stp.cur)
       THEN /\ proc' = IF proc[stp.cur].st = "running"
                       THEN [proc EXCEPT ![stp.cur].st = "zombie",
                                         ![stp.cur].rc = <<-SIGKILL>>,
                                         ![stp.cur].wrote = {}]
                       ELSE proc
            /\ stp' = StopAdvance([stp EXCEPT !.stopped = TRUE])
       ELSE /\ proc' = proc
            /\ stp' = StopAdvance(stp)
    /\ UNCHANGED <<row, doc, log, statusFile, exitFile, run, rty>>
    /\ UNCHANGED <<fileVars, artVars, sweepVars, storeVars, destroyVars, gitVars, copyVars, killVars>>

\* (variant) the stop sentinel written with the signal's number, not its negation
StopRow_positive(r) ==
    update_job_status(r, <<STATUS_FAILED>>, <<>>, <<"stop">>, <<SIGKILL>>)

StopRow(r) ==
    update_job_status(r, <<STATUS_FAILED>>, <<>>, <<"stop">>, <<ExitUserStop>>)

StopDb ==
    /\ stp.pc = "s_db"
    /\ row' = StopRow(row)
    /\ stp' = [stp EXCEPT !.pc = "s_spec"]
    /\ UNCHANGED <<doc, log, proc, statusFile, exitFile, run, rty>>
    /\ UNCHANGED <<fileVars, artVars, sweepVars, storeVars, destroyVars, gitVars, copyVars, killVars>>

\* _update_job_spec(job_id, _mark_stopped); the log line; return stopped
StopSpec ==
    /\ stp.pc = "s_spec"
    /\ doc' = _update_job_spec(doc, _mark_stopped(load_job_spec(doc)))
    /\ log' = LogAppend(log, "stopped")
    /\ stp' = [stp EXCEPT !.pc = "idle", !.ret = <<TRUE>>]
    /\ UNCHANGED <<row, proc, statusFile, exitFile, run, rty>>
    /\ UNCHANGED <<fileVars, artVars, sweepVars, storeVars, destroyVars, gitVars, copyVars, killVars>>

----------------------------------------------------------------------------
(* RetryController: jobs.retry_job, called by POST /jobs/{id}/retry *)

\* (variant) the reset goes through update_job_status, whose COALESCE keeps
\* the old timestamps and exit code
RetryReset_coalesce(r) == update_job_status(r, <<STATUS_PENDING>>, <<>>, <<>>, <<>>)

\* UPDATE jobs SET status = pending, started_at = NULL, finished_at = NULL,
\*                 exit_code = NULL WHERE id = ?
RetryReset(r) ==
    IF ~r.present THEN r
    ELSE [r EXCEPT !.status = STATUS_PENDING, !.started_at = <<>>,
                   !.finished_at = <<>>, !.exit_code = <<>>]

FreeLaunches == {k \in Pids : run[k].pc = "idle"}

NextLaunch == CHOOSE k \in FreeLaunches : \A m \in FreeLaunches : k <= m

RetryCall ==
    /\ rty.pc = "idle"
    /\ row.present
    /\ row.status \notin {STATUS_RUNNING, STATUS_PENDING}
    /\ FreeLaunches # {}
    /\ \E dbOk \in BOOLEAN :
         IF dbOk
         THEN /\ row' = RetryReset(row)
              /\ rty' = [pc |-> "r_spec", ret |-> <<>>, k |-> 0]
         ELSE /\ row' = row
              /\ rty' = [pc |-> "idle", ret |-> <<FALSE>>, k |-> 0]
    /\ UNCHANGED <<doc, log, proc, statusFile, exitFile, run, stp>>
    /\ UNCHANGED <<fileVars, artVars, sweepVars, storeVars, destroyVars, gitVars, copyVars, killVars>>

\* (variant) the workspace cleanup without its try/except
AfterCleanup_uncaught(rmOk) == IF rmOk THEN "r_launch" ELSE "raised"

\* try: shutil.rmtree(ws_dir) except Exception: logger.warning(...): retry_job
\* goes on whether the removal of the old workspace worked or not
AfterCleanup(rmOk) == "r_launch"

\* the workspace cleanup; _update_job_spec(job_id, _mark_retry); the log line
RetrySpec ==
    /\ rty.pc = "r_spec"
    /\ \E next \in {AfterCleanup(rmOk) : rmOk \in BOOLEAN} :
         IF next = "r_launch"
         THEN /\ doc' = _update_job_spec(doc, _mark_retry(load_job_spec(doc)))
              /\ log' = LogAppend(log, "retry")
              /\ rty' = [rty EXCEPT !.pc = "r_launch"]
         ELSE /\ UNCHANGED <<doc, log>>
              /\ rty' = [rty EXCEPT !.pc = "idle"]
    /\ UNCHANGED <<row, proc, statusFile, exitFile, run, stp>>
    /\ UNCHANGED <<fileVars, artVars, sweepVars, storeVars, destroyVars, gitVars, copyVars, killVars>>

\* start_job_runner(job_id, owner=owner)
RetryLaunch ==
    /\ rty.pc = "r_launch"
    /\ run' = [run EXCEPT ![NextLaunch].pc = "l_begin"]
    /\ rty' = [rty EXCEPT !.pc = "r_wait", !.k = NextLaunch]
    /\ UNCHANGED <<row, doc, log, proc, statusFile, exitFile, stp>>
    /\ UNCHANGED <<fileVars, artVars, sweepVars, storeVars, destroyVars, gitVars, copyVars, killVars>>

----------------------------------------------------------------------------
(* The job's life *)

Launcher == \E k \in Pids : LaunchBegin(k) \/ LaunchSpawn(k) \/ LaunchMark(k)

Watcher == \E k \in Pids : WatchTick(k) \/ WatchWrite(k)

Entrypoint == \E k \in Pids : ProcWriteStatus(k) \/ ProcWriteExit(k) \/ ProcExit(k)

Stop == StopCall \/ StopTerm \/ StopWait \/ StopKill \/ StopDb \/ StopSpec

Retry == RetryCall \/ RetrySpec \/ RetryLaunch

LifeNext == Submit \/ Launcher \/ Watcher \/ Entrypoint \/ Stop \/ Retry

----------------------------------------------------------------------------
(* JobSpecDocument on disk: the writers of <jobs_root>/<id>/job.json.       *)
(* jobs._update_job_spec ("mutate", under the per-job lock), the route's    *)
(* _update_job_json ("route") and jobs.write_job_spec ("initial") all go    *)
(* through the one temporary name job.json.tmp.  The document carries a     *)
(* counter; a mutation is counter := counter + 1.                           *)

Writers == 1..MaxWriters

\* every name and every open file keeps one inode alive
Inodes == 1..(MaxWriters + 2)

IdleWriter == [pc |-> "idle", kind |-> "none", data |-> 0, fd |-> 0, ret |-> <<>>]

FileInit ==
    /\ dirent \in {[job |-> 0, tmp |-> 0], [job |-> 1, tmp |-> 0]}
    /\ inode = [i \in Inodes |-> IF i = dirent.job THEN <<0>> ELSE <<>>]
    /\ specLock = 0
    /\ wr = [t \in Writers |-> IdleWriter]

Referenced(d, w, i) == i = d.job \/ i = d.tmp \/ \E t \in Writers : w[t].fd = i

\* an inode no name and no open file refers to is freed
Reclaim(d, w, ino) == [i \in Inodes |-> IF Referenced(d, w, i) THEN ino[i] ELSE <<>>]

FreeInode == CHOOSE i \in Inodes :
    /\ ~Referenced(dirent, wr, i)
    /\ \A j \in Inodes : j < i => Referenced(dirent, wr, j)

\* (variant) _job_lock hands every caller a lock of its own
CanAcquire_private(holder) == TRUE

\* threading.Lock: acquired only while no thread holds it
CanAcquire(holder) == holder = 0

\* a thread enters one of the three writers
WriterCall(t) ==
    /\ wr[t].pc = "idle"
    /\ \E kind \in {"mutate", "route", "initial"} :
         \* write_job_spec is called once, by the submission, before job.json exists
         /\ kind = "initial" => (dirent.job = 0 /\ \A u \in Writers : wr[u].kind # "initial")
         /\ wr' = [wr EXCEPT ![t] =
                  [IdleWriter EXCEPT !.kind = kind,
                                     !.pc = CASE kind = "mutate" -> "lock"
                                              [] kind = "route" -> "read"
                                              [] kind = "initial" -> "open"]]
    /\ UNCHANGED <<dirent, inode, specLock>>
    /\ UNCHANGED <<lifeVars, artVars, sweepVars, storeVars, destroyVars, gitVars, copyVars, killVars>>

\* lock = _job_lock(job_id); with lock:
Acquire(t) ==
    /\ wr[t].pc = "lock"
    /\ CanAcquire(specLock)
    /\ specLock' = t
    /\ wr' = [wr EXCEPT ![t].pc = "read"]
    /\ UNCHANGED <<dirent, inode>>
    /\ UNCHANGED <<lifeVars, artVars, sweepVars, storeVars, destroyVars, gitVars, copyVars, killVars>>

\* if path.exists(): json.loads(path.read_text()); mutate_fn(existing).
\* An empty file is not JSON: _update_job_spec goes on with {}, the route's
\* helper returns False.
ReadDoc(t) ==
    /\ wr[t].pc = "read"
    /\ LET absent == dirent.job = 0
           text == IF absent THEN <<>> ELSE inode[dirent.job]
       IN  IF ~absent /\ text = <<>> /\ wr[t].kind = "route"
           THEN wr' = [wr EXCEPT ![t].pc = "done", ![t].ret = <<FALSE>>]
           ELSE wr' = [wr EXCEPT ![t].pc = "open",
                                 ![t].data = (IF text = <<>> THEN 0 ELSE text[1]) + 1]
    /\ UNCHANGED <<dirent, inode, specLock>>
    /\ UNCHANGED <<lifeVars, artVars, sweepVars, storeVars, destroyVars, gitVars, copyVars, killVars>>

\* tmp.write_text(...) / tmp.open("w"), first half: open(tmp, O_CREAT|O_TRUNC)
OpenTmp(t) ==
    /\ wr[t].pc = "open"
    /\ LET n == IF dirent.tmp = 0 THEN FreeInode ELSE dirent.tmp
       IN  /\ dirent' = [dirent EXCEPT !.tmp = n]
           /\ inode' = [inode EXCEPT ![n] = <<>>]
           /\ wr' = [wr EXCEPT ![t].pc = "write", ![t].fd = n]
    /\ UNCHANGED specLock
    /\ UNCHANGED <<lifeVars, artVars, sweepVars, storeVars, destroyVars, gitVars, copyVars, killVars>>

\* second half: the document is written through the open file, which is closed
WriteTmp(t) ==
    /\ wr[t].pc = "write"
    /\ wr' = [wr EXCEPT ![t].pc = "rename", ![t].fd = 0]
    /\ inode' = Reclaim(dirent, wr', [inode EXCEPT ![wr[t].fd] = <<wr[t].data>>])
    /\ UNCHANGED <<dirent, specLock>>
    /\ UNCHANGED <<lifeVars, artVars, sweepVars, storeVars, destroyVars, gitVars, copyVars, killVars>>

\* tmp.replace(path): FileNotFoundError when another writer has renamed the
\* temporary file away; the lock is released on the way out
RenameTmp(t) ==
    /\ wr[t].pc = "rename"
    /\ IF dirent.tmp = 0
       THEN /\ wr' = [wr EXCEPT ![t].pc = "done", ![t].ret = <<FALSE>>]
            /\ UNCHANGED <<dirent, inode>>
       ELSE /\ wr' = [wr EXCEPT ![t].pc = "done", ![t].ret = <<TRUE>>]
            /\ dirent' = [job |-> dirent.tmp, tmp |-> 0]
            /\ inode' = Reclaim(dirent', wr', inode)
    /\ specLock' = IF wr[t].kind = "mutate" THEN 0 ELSE specLock
    /\ UNCHANGED <<lifeVars, artVars, sweepVars, storeVars, destroyVars, gitVars, copyVars, killVars>>

FileNext == \E t \in Writers :
    WriterCall(t) \/ Acquire(t) \/ ReadDoc(t) \/ OpenTmp(t) \/ WriteTmp(t) \/ RenameTmp(t)

----------------------------------------------------------------------------
(* ArtifactCollector: jobs.collect_artifacts and jobs._copy_unique.          *)
(* A file name is the sequence of its characters.                           *)

DotStatic == <<".", "s", "t", "a", "t", "i", "c">>
DotMtd == <<".", "m", "t", "d">>
DotTar == <<".", "t", "a", "r">>

\* patterns = ["*.static.mtd", "*.static.mtd.tar"]: what follows the "*"
patterns == <<DotStatic \o DotMtd, DotStatic \o DotMtd \o DotTar>>

\* fnmatch of "*" + tail
Matches(name, tail) ==
    /\ Len(name) >= Len(tail)
    /\ SubSeq(name, Len(name) - Len(tail) + 1, Len(name)) = tail

\* the files a build may leave in the job directory, outside artifacts/
TreeFiles ==
    { [dir |-> "workspace",        name |-> <<"a">> \o DotStatic \o DotMtd],
      [dir |-> "workspace/deploy", name |-> <<"a">> \o DotStatic \o DotMtd],
      [dir |-> "workspace",        name |-> <<"a">> \o DotStatic \o DotMtd \o DotTar],
      [dir |-> "workspace",        name |-> <<"a">> \o DotMtd],
      [dir |-> "logs",             name |-> <<"b", ".", "l", "o", "g">> ] }

\* PurePath.suffix / PurePath.stem: split at the last dot, unless it is the
\* first or the last character
LastDot(name) ==
    LET dots == {i \in 1..Len(name) : name[i] = "."}
    IN  IF dots = {} THEN 0 ELSE CHOOSE i \in dots : \A j \in dots : j <= i

HasSuffix(name) == LastDot(name) > 1 /\ LastDot(name) < Len(name)

suffix(name) == IF HasSuffix(name) THEN SubSeq(name, LastDot(name), Len(name)) ELSE <<>>

stem(name) == IF HasSuffix(name) THEN SubSeq(name, 1, LastDot(name) - 1) ELSE name

DigitChars == <<"0", "1", "2", "3", "4", "5", "6", "7", "8", "9">>

\* str(counter) of the f-string
RECURSIVE Decimal(_)
Decimal(n) ==
    IF n < 10 THEN <<DigitChars[n + 1]>>
    ELSE Decimal(n \div 10) \o <<DigitChars[(n % 10) + 1]>>

\* f"{stem}_{counter}{suffix}"
Numbered(name, counter) == stem(name) \o <<"_">> \o Decimal(counter) \o suffix(name)

\* (variant) one attempt at a new name instead of the while loop
FirstFree_once(name, counter, names) == Numbered(name, counter)

\* while target.exists(): target = dest_dir / f"{stem}_{counter}{suffix}"; counter += 1
RECURSIVE FirstFree(_, _, _)
FirstFree(name, counter, names) ==
    IF Numbered(name, counter) \notin names THEN Numbered(name, counter)
    ELSE FirstFree(name, counter + 1, names)

\* the name _copy_unique copies src to
_copy_unique(name, names) ==
    IF name \notin names THEN name ELSE FirstFree(name, 1, names)

\* for path in base_dir.rglob(pattern): _copy_unique(path, artifacts_dir)
RECURSIVE CopyEach(_, _)
CopyEach(files, names) ==
    IF files = {} THEN names
    ELSE LET f == CHOOSE f \in files : TRUE
         IN  CopyEach(files \ {f}, names \cup {_copy_unique(f.name, names)})

\* for pattern in patterns: ...   (files under artifacts/ are skipped: the
\* tree holds none)
collect_artifacts(files, names) ==
    LET first == CopyEach({f \in files : Matches(f.name, patterns[1])}, names)
    IN  CopyEach({f \in files : Matches(f.name, patterns[2])}, first)

ArtInit ==
    /\ tree \in SUBSET TreeFiles
    /\ artifacts = {}
    /\ ncollect = 0

Collect ==
    /\ ncollect < MaxCollect
    /\ ncollect' = ncollect + 1
    /\ artifacts' = collect_artifacts(tree, artifacts)
    /\ UNCHANGED tree
    /\ UNCHANGED <<lifeVars, fileVars, sweepVars, storeVars, destroyVars, gitVars, copyVars, killVars>>

----------------------------------------------------------------------------
(* RetentionSweeper: housekeeping.run_housekeeping_once.                    *)
(* A job's age is now - created_at in days, so "created <= now -            *)
(* timedelta(days=n)" is "age >= n".  created_at is written by now_iso and  *)
(* always parses.                                                           *)

JobIds == 1..MaxJobs

Ages == {1, 10, 40}

\* prune_days_age / delete_days_age of the system settings
DaysChoices == {-1, 0, 7, 30}

JobFiles == {"workspace", "logs", "artifacts", "job.json"}

\* a job as its submission leaves it, at some age
Jobs ==
    [row : {TRUE}, status : {STATUS_PENDING, STATUS_RUNNING, STATUS_SUCCESS, STATUS_FAILED},
     pinned : BOOLEAN, age : Ages, dir : {TRUE}, files : {JobFiles}, is_pruned : {FALSE}]

\* before: the table as the current sweep found it
\* ops: the _delete_job and _prune_workspace calls of the current sweep;
\* last: the thresholds of the sweep before it;
\* failed: the jobs whose helper raised in the current sweep
IdleSweep ==
    [pc |-> "idle", prune_days |-> 0, delete_days |-> 0, rows |-> <<>>, n |-> 0,
     before |-> <<>>, ops |-> 0, last |-> <<0, 0>>, failed |-> {}]

SweepInit ==
    /\ jobsTab \in [JobIds -> Jobs]
    /\ swp = [IdleSweep EXCEPT !.before = jobsTab]

\* (variant) the sweeper does not look at the is_pruned flag
_job_is_pruned_never(tab, id) == FALSE

\* spec.get("is_pruned") of load_job_spec(job_id) or {}
_job_is_pruned(tab, id) == "job.json" \in tab[id].files /\ tab[id].is_pruned

\* rmtree(workspace_dir); _mark_pruned(job_id), which writes job.json
_prune_workspace(tab, id) ==
    [tab EXCEPT ![id].files = IF tab[id].dir THEN (@ \ {"workspace"}) \cup {"job.json"} ELSE @,
                ![id].is_pruned = tab[id].dir]

\* rmtree(job_path); delete_job(job_id)
_delete_job(tab, id) ==
    [tab EXCEPT ![id].dir = FALSE, ![id].files = {}, ![id].is_pruned = FALSE,
                ![id].row = FALSE]


\* the helper that the body of "for row in rows:" calls for a row, if any
SweepCalls(tab, r, prune_days, delete_days) ==
    IF r.status \in {STATUS_RUNNING, STATUS_PENDING} THEN "none"
    ELSE IF delete_days > 0 /\ r.age >= delete_days /\ ~r.pinned
    THEN "_delete_job"
    ELSE IF prune_days > 0 /\ r.age >= prune_days /\ ~r.pinned /\ ~_job_is_pruned(tab, r.id)
    THEN "_prune_workspace"
    ELSE "none"

\* (variant) the loop without its test of the status
SweepOne_anystatus(tab, r, prune_days, delete_days) ==
    IF delete_days > 0 /\ r.age >= delete_days /\ ~r.pinned
    THEN _delete_job(tab, r.id)
    ELSE IF prune_days > 0 /\ r.age >= prune_days /\ ~r.pinned /\ ~_job_is_pruned(tab, r.id)
    THEN _prune_workspace(tab, r.id)
    ELSE tab

\* (variant) the prune test made before the delete test
SweepOne_prunefirst(tab, r, prune_days, delete_days) ==
    IF r.status \in {STATUS_RUNNING, STATUS_PENDING} THEN tab
    ELSE IF prune_days > 0 /\ r.age >= prune_days /\ ~r.pinned /\ ~_job_is_pruned(tab, r.id)
    THEN _prune_workspace(tab, r.id)
    ELSE IF delete_days > 0 /\ r.age >= delete_days /\ ~r.pinned
    THEN _delete_job(tab, r.id)
    ELSE tab

\* (variant) the delete test without "and not row['pinned']"
SweepOne_nopin(tab, r, prune_days, delete_days) ==
    IF r.status \in {STATUS_RUNNING, STATUS_PENDING} THEN tab
    ELSE IF delete_days > 0 /\ r.age >= delete_days
    THEN _delete_job(tab, r.id)
    ELSE IF prune_days > 0 /\ r.age >= prune_days /\ ~r.pinned /\ ~_job_is_pruned(tab, r.id)
    THEN _prune_workspace(tab, r.id)
    ELSE tab

\* (variant) the cutoffs computed without their "if days > 0"
SweepOne_nozero(tab, r, prune_days, delete_days) ==
    IF r.status \in {STATUS_RUNNING, STATUS_PENDING} THEN tab
    ELSE IF r.age >= delete_days /\ ~r.pinned
    THEN _delete_job(tab, r.id)
    ELSE IF r.age >= prune_days /\ ~r.pinned /\ ~_job_is_pruned(tab, r.id)
    THEN _prune_workspace(tab, r.id)
    ELSE tab

\* the body of "for row in rows:"
SweepOne(tab, r, prune_days, delete_days) ==
    IF r.status \in {STATUS_RUNNING, STATUS_PENDING} THEN tab
    ELSE IF delete_days > 0 /\ r.age >= delete_days /\ ~r.pinned
    THEN _delete_job(tab, r.id)
    ELSE IF prune_days > 0 /\ r.age >= prune_days /\ ~r.pinned /\ ~_job_is_pruned(tab, r.id)
    THEN _prune_workspace(tab, r.id)
    ELSE tab

\* SELECT id, created_at, pinned, status FROM jobs
RECURSIVE SelectRows(_, _)
SelectRows(tab, id) ==
    IF id > MaxJobs THEN <<>>
    ELSE (IF tab[id].row
          THEN <<[id |-> id, age |-> tab[id].age, pinned |-> tab[id].pinned,
                  status |-> tab[id].status]>>
          ELSE <<>>) \o SelectRows(tab, id + 1)

\* max(int(settings.prune_days_age or 0), 0)
Days(x) == IF x > 0 THEN x ELSE 0

\* the settings are read, the cutoffs computed and the rows selected; with
\* both thresholds off the sweep returns at once
SweepBegin ==
    /\ swp.pc = "idle"
    /\ swp.n < MaxSweeps
    /\ \E p \in DaysChoices, d \in DaysChoices :
         swp' = [pc |-> IF Days(p) = 0 /\ Days(d) = 0 THEN "idle" ELSE "scan",
                 prune_days |-> Days(p), delete_days |-> Days(d),
                 rows |-> IF Days(p) = 0 /\ Days(d) = 0 THEN <<>> ELSE SelectRows(jobsTab, 1),
                 n |-> swp.n + 1,
                 before |-> jobsTab,
                 ops |-> 0,
                 last |-> <<swp.prune_days, swp.delete_days>>,
                 failed |-> {}]
    /\ UNCHANGED jobsTab
    /\ UNCHANGED <<lifeVars, fileVars, artVars, storeVars, destroyVars, gitVars, copyVars, killVars>>

\* one turn of the loop; the sweep returns after the last row
SweepRow ==
    /\ swp.pc = "scan"
    /\ IF swp.rows = <<>>
       THEN /\ swp' = [swp EXCEPT !.pc = "idle"]
            /\ UNCHANGED jobsTab
       ELSE /\ jobsTab' = SweepOne(jobsTab, Head(swp.rows), swp.prune_days, swp.delete_days)
            /\ swp' = [swp EXCEPT !.rows = Tail(@),
                                   !.ops = IF SweepCalls(jobsTab, Head(swp.rows), swp.prune_days,
                                                         swp.delete_days) = "none"
                                           THEN @ ELSE @ + 1]
    /\ UNCHANGED <<lifeVars, fileVars, artVars, storeVars, destroyVars, gitVars, copyVars, killVars>>

SweepNext == SweepBegin \/ SweepRow

\* _delete_job whose delete_job(job_id) raises (the database is locked or
\* gone): rmtree has run, the row stays, and the exception leaves the for
\* loop and run_housekeeping_once; run_periodic_housekeeping logs it and
\* sleeps until the next pass.
\* (variant) the periodic loop without its try/except: the exception ends it
AfterPassRaises_uncaught == "dead"

\* except Exception: logger.warning("[housekeeping] run failed"); the loop
\* goes on to its sleep
AfterPassRaises == "idle"

SweepRaise ==
    /\ swp.pc = "scan"
    /\ swp.rows # <<>>
    /\ LET r == Head(swp.rows) IN
         /\ SweepCalls(jobsTab, r, swp.prune_days, swp.delete_days) = "_delete_job"
         /\ jobsTab' = [jobsTab EXCEPT ![r.id].dir = FALSE, ![r.id].files = {},
                                       ![r.id].is_pruned = FALSE]
         /\ swp' = [swp EXCEPT !.pc = AfterPassRaises, !.rows = <<>>, !.ops = @ + 1,
                               !.failed = @ \cup {r.id}]
    /\ UNCHANGED <<lifeVars, fileVars, artVars, storeVars, destroyVars, gitVars, copyVars, killVars>>

SweepFaultNext == SweepNext \/ SweepRaise

\* a pass that cannot load the settings, or cannot query the jobs table:
\* run_housekeeping_once logs a warning and returns
SweepSkip ==
    /\ swp.pc = "idle"
    /\ swp.n < MaxSweeps
    /\ \E p \in DaysChoices, d \in DaysChoices, settingsOk \in BOOLEAN :
         /\ settingsOk => (Days(p) > 0 \/ Days(d) > 0)
         /\ swp' = [swp EXCEPT !.n = @ + 1,
                               !.prune_days = IF settingsOk THEN Days(p) ELSE 0,
                               !.delete_days = IF settingsOk THEN Days(d) ELSE 0,
                               !.rows = <<>>, !.before = jobsTab, !.ops = 0,
                               !.last = <<swp.prune_days, swp.delete_days>>,
                               !.failed = {}]
    /\ UNCHANGED jobsTab
    /\ UNCHANGED <<lifeVars, fileVars, artVars, storeVars, destroyVars, gitVars, copyVars, killVars>>

\* run_periodic_housekeeping: while True: pass; sleep
PeriodicNext == SweepFaultNext \/ SweepSkip

----------------------------------------------------------------------------
(* One job between the users, the supervisor and the sweeper *)

TheJob == 1

\* what the supervisor still has to do for a job of that status: the launch
\* scheduled by the submission or a retry, or the watcher's polling
Activity(status) ==
    IF status = STATUS_PENDING THEN "launch"
    ELSE IF status = STATUS_RUNNING THEN "watch" ELSE "none"

\* the job as its submission leaves it, at some age, with the work pending
DestroyJobs ==
    { j \in [row : {TRUE},
             status : {STATUS_PENDING, STATUS_RUNNING, STATUS_SUCCESS, STATUS_FAILED},
             pinned : BOOLEAN, age : Ages, dir : {TRUE}, files : {JobFiles},
             is_pruned : {FALSE}, act : {"none", "launch", "watch"}] :
        j.act = Activity(j.status) }

\* the sweep: its thresholds and the rows it selected and has not yet visited
\* acted: the pass has removed something of the job
IdleHk == [pc |-> "idle", prune_days |-> 0, delete_days |-> 0, rows |-> <<>>,
           acted |-> FALSE]

DestroyInit ==
    /\ job \in [{TheJob} -> DestroyJobs]
    /\ hk = IdleHk

DestroyIdle == job = <<>> /\ hk = IdleHk

\* UPDATE jobs SET status = ... WHERE id = ?: no row, no change
SetStatus(tab, id, status) ==
    IF tab[id].row THEN [tab EXCEPT ![id].status = status] ELSE tab

\* mkdir(parents=True, exist_ok=True) of directories below the job directory
MakeDirs(tab, id, names) ==
    [tab EXCEPT ![id].dir = TRUE, ![id].files = @ \cup names]

\* The route handlers are coroutines without a suspension point after their
\* form is read, and run_housekeeping_once has none either: on the one event
\* loop of the supervisor no handler runs inside a pass of the sweeper.
\* Background launches and their watchers run on threads of their own.
LoopFree == hk.pc = "idle"

\* POST /jobs/{id}/pin
PinJob(id) ==
    /\ LoopFree
    /\ job[id].row
    /\ \E desired \in BOOLEAN : job' = [job EXCEPT ![id].pinned = desired]
    /\ UNCHANGED hk
    /\ UNCHANGED <<lifeVars, fileVars, artVars, sweepVars, storeVars, gitVars, copyVars, killVars>>

\* the delete branch of the routes: not found and pinned are refused, a
\* failing rmtree returns before the row is deleted
RouteDelete(tab, id, rmOk) ==
    IF ~tab[id].row \/ tab[id].pinned THEN tab
    ELSE IF tab[id].dir /\ ~rmOk THEN tab
    ELSE [tab EXCEPT ![id].dir = FALSE, ![id].files = {}, ![id].is_pruned = FALSE,
                     ![id].row = FALSE]

\* the prune branch of the batch route
RoutePrune(tab, id, rmOk) ==
    IF ~tab[id].row \/ tab[id].pinned THEN tab
    ELSE IF tab[id].status \notin {STATUS_SUCCESS, STATUS_FAILED} THEN tab
    ELSE IF "workspace" \in tab[id].files /\ ~rmOk THEN tab
    ELSE [tab EXCEPT ![id].dir = TRUE,
                     ![id].files = (@ \ {"workspace"}) \cup {"job.json"},
                     ![id].is_pruned = TRUE]

\* POST /jobs/{id}/delete
UserDelete(id) ==
    /\ LoopFree
    /\ job[id].row
    /\ \E rmOk \in BOOLEAN : job' = RouteDelete(job, id, rmOk)
    /\ UNCHANGED hk
    /\ UNCHANGED <<lifeVars, fileVars, artVars, sweepVars, storeVars, gitVars, copyVars, killVars>>

\* POST /jobs/batch with job_ids = [id]
BatchAction(id) ==
    /\ LoopFree
    /\ \E action \in {"prune", "delete"}, rmOk \in BOOLEAN :
         job' = IF action = "prune" THEN RoutePrune(job, id, rmOk)
                ELSE RouteDelete(job, id, rmOk)
    /\ UNCHANGED hk
    /\ UNCHANGED <<lifeVars, fileVars, artVars, sweepVars, storeVars, gitVars, copyVars, killVars>>

\* jobs.start_job_runner: the row turns running, prepare_job_dirs, the spawn;
\* without a process the row turns failed and no watcher is scheduled
Launched(tab, id, spawned) ==
    [MakeDirs(SetStatus(tab, id, IF spawned THEN STATUS_RUNNING ELSE STATUS_FAILED),
              id, {"logs", "artifacts"})
       EXCEPT ![id].act = IF spawned THEN "watch" ELSE "none"]

\* jobs.retry_job: the row is reset to pending, the workspace removed, the
\* log gets its notice
RetryReset_table(tab, id) ==
    [MakeDirs(SetStatus(tab, id, STATUS_PENDING), id, {"logs"})
       EXCEPT ![id].files = @ \ {"workspace"}]

\* POST /jobs/{id}/retry: jobs.retry_job, which ends by calling
\* start_job_runner itself
RetryJob(id) ==
    /\ LoopFree
    /\ job[id].row
    /\ job[id].status \notin {STATUS_RUNNING, STATUS_PENDING}
    /\ \E spawned \in BOOLEAN : job' = Launched(RetryReset_table(job, id), id, spawned)
    /\ UNCHANGED hk
    /\ UNCHANGED <<lifeVars, fileVars, artVars, sweepVars, storeVars, gitVars, copyVars, killVars>>

\* the background task of the submission: jobs.start_job_runner on a thread
LaunchJob(id) ==
    /\ job[id].act = "launch"
    /\ \E spawned \in BOOLEAN : job' = Launched(job, id, spawned)
    /\ UNCHANGED hk
    /\ UNCHANGED <<lifeVars, fileVars, artVars, sweepVars, storeVars, gitVars, copyVars, killVars>>

\* the deciding tick of jobs.poll_job: by a file of the job directory, or by
\* the exit of the process, which also appends its note to the log
WatchFinish(id) ==
    /\ job[id].act = "watch"
    /\ \/ /\ job[id].dir
          /\ \E status \in {STATUS_SUCCESS, STATUS_FAILED} :
               job' = [SetStatus(job, id, status) EXCEPT ![id].act = "none"]
       \/ job' = [MakeDirs(SetStatus(job, id, STATUS_FAILED), id, {"logs"})
                    EXCEPT ![id].act = "none"]
    /\ UNCHANGED hk
    /\ UNCHANGED <<lifeVars, fileVars, artVars, sweepVars, storeVars, gitVars, copyVars, killVars>>

\* run_housekeeping_once up to the loop: thresholds and the selected rows
HkBegin ==
    /\ hk.pc = "idle"
    /\ \E p \in DaysChoices, d \in DaysChoices :
         /\ Days(p) > 0 \/ Days(d) > 0
         /\ hk' = [pc |-> "scan", prune_days |-> Days(p), delete_days |-> Days(d),
                   rows |-> IF job[TheJob].row
                            THEN <<[id |-> TheJob, age |-> job[TheJob].age,
                                    pinned |-> job[TheJob].pinned,
                                    status |-> job[TheJob].status]>>
                            ELSE <<>>,
                   acted |-> FALSE]
    /\ UNCHANGED job
    /\ UNCHANGED <<lifeVars, fileVars, artVars, sweepVars, storeVars, gitVars, copyVars, killVars>>

\* one turn of the loop over the selected rows; the sweep returns after the last
HkRow ==
    /\ hk.pc = "scan"
    /\ IF hk.rows = <<>>
       THEN /\ hk' = IdleHk
            /\ UNCHANGED job
       ELSE /\ job' = SweepOne(job, Head(hk.rows), hk.prune_days, hk.delete_days)
            /\ hk' = [hk EXCEPT !.rows = Tail(@), !.acted = (job' # job)]
    /\ UNCHANGED <<lifeVars, fileVars, artVars, sweepVars, storeVars, gitVars, copyVars, killVars>>

DestroyNext ==
    \/ HkBegin \/ HkRow
    \/ \E id \in {TheJob} :
         \/ PinJob(id) \/ UserDelete(id) \/ BatchAction(id)
         \/ RetryJob(id) \/ LaunchJob(id) \/ WatchFinish(id)

----------------------------------------------------------------------------
(* JobStore with several rows: db.update_job_status as one UPDATE statement *)

\* rows the table may hold when a call arrives
StoreRows ==
    { NoRow, InsertRow,
      [present |-> TRUE, status |-> STATUS_RUNNING, started_at |-> <<"t0">>,
       finished_at |-> <<>>, exit_code |-> <<>>],
      [present |-> TRUE, status |-> STATUS_SUCCESS, started_at |-> <<"t0">>,
       finished_at |-> <<"t0">>, exit_code |-> <<0>>] }

\* arguments of a call; <<>> is None, the default of the optional ones
StatusArgs == {<<STATUS_RUNNING>>, <<STATUS_FAILED>>}

TimeArgs == {<<>>, <<"t1">>}

ExitArgs == {<<>>, <<0>>}

StoreInit == store \in [JobIds -> StoreRows]

StoreIdle == store = <<>>

\* UPDATE jobs SET ... WHERE id = ?
UpdateWhere(tab, id, status, started_at, finished_at, exit_code) ==
    [tab EXCEPT ![id] = update_job_status(@, status, started_at, finished_at, exit_code)]

UpdateStatus ==
    /\ \E id \in JobIds, status \in StatusArgs, started_at \in TimeArgs,
          finished_at \in TimeArgs, exit_code \in ExitArgs :
         store' = UpdateWhere(store, id, status, started_at, finished_at, exit_code)
    /\ UNCHANGED <<lifeVars, fileVars, artVars, sweepVars, destroyVars, gitVars, copyVars, killVars>>

----------------------------------------------------------------------------
(* CredentialProvisioner: jobs.setup_job_git_env on arbitrary settings *)

UserTexts == {"", "u"}

SecretTexts == {"", "t"}

\* gitlab_host of the settings: absent, a URL with and without a trailing
\* slash, a bare name with a slash, another name, a lone slash
HostTexts ==
    {NoHost, Host(TRUE, "git.ami.com", FALSE), Host(TRUE, "git.ami.com", TRUE),
     Host(FALSE, "git.ami.com", TRUE), Host(FALSE, "h", FALSE), Host(FALSE, "", TRUE)}

GitSettings ==
    [gitlab_username_primary : UserTexts, gitlab_token_primary : SecretTexts,
     gitlab_username_secondary : UserTexts, gitlab_token_secondary : SecretTexts,
     gitlab_host : HostTexts, gitlab_username : UserTexts, gitlab_token : SecretTexts]

GitInit ==
    git \in [settings : GitSettings, fallback_token : SecretTexts,
             fallback_username : UserTexts, pc : {"call"}, entries : {<<>>},
             env : {{}}]

GitIdle == git = <<>>

\* the call: .git-credentials gets the lines, the env overrides are returned
Provision ==
    /\ git.pc = "call"
    /\ LET entries == setup_job_git_env(git.settings, git.fallback_token,
                                        git.fallback_username)
       IN git' = [git EXCEPT !.pc = "done", !.entries = entries, !.env = GitEnv(entries)]
    /\ UNCHANGED <<lifeVars, fileVars, artVars, sweepVars, storeVars, destroyVars, copyVars, killVars>>

----------------------------------------------------------------------------
(* collect_artifacts over a job directory whose artifacts/ already has      *)
(* files, with copies that may fail. A file of artifacts/ is a record of    *)
(* its directory, its name, the file it was copied from (<<>> when it was   *)
(* there before) and whether its content is whole.                          *)

\* Path.parents of a file in directory dir, below the job directory
Parents(dir) ==
    CASE dir = "workspace/deploy" -> {"workspace/deploy", "workspace"}
      [] dir = "artifacts/old" -> {"artifacts/old", "artifacts"}
      [] OTHER -> {dir}

\* files that may be in artifacts/ before a call
OldFiles ==
    { [dir |-> "artifacts",     name |-> <<"a">> \o DotStatic \o DotMtd],
      [dir |-> "artifacts",     name |-> Numbered(<<"a">> \o DotStatic \o DotMtd, 1)],
      [dir |-> "artifacts/old", name |-> <<"a">> \o DotStatic \o DotMtd \o DotTar] }

Old(f) == [dir |-> f.dir, name |-> f.name, from |-> <<>>, whole |-> TRUE]

\* dest_dir / name for name in os.listdir(dest_dir): what target.exists() sees
TargetNames(files) == {h.name : h \in {x \in files : x.dir = "artifacts"}}

\* shutil.copy2(src, target): the target is created or replaced. A copy that
\* fails leaves no target, or a target that is not whole.
copy2(f, target, files, fail, partial) ==
    LET others == {x \in files : ~(x.dir = "artifacts" /\ x.name = target)}
    IN  IF f \notin fail
        THEN others \cup {[dir |-> "artifacts", name |-> target, from |-> <<f>>, whole |-> TRUE]}
        ELSE IF f \in partial
        THEN others \cup {[dir |-> "artifacts", name |-> target, from |-> <<f>>, whole |-> FALSE]}
        ELSE files

\* if artifacts_dir in path.parents: continue
InsideArtifacts(f) == "artifacts" \in Parents(f.dir)

\* (variant) one try/except around the loops
RestAfterFailure_abort(rest) == <<>>

\* except Exception: logger.debug(...) inside the loop: the loop goes on
RestAfterFailure(rest) == rest

\* for path in base_dir.rglob(pattern): try: ... except Exception: ...
RECURSIVE CopyScan(_, _, _, _)
CopyScan(order, files, fail, partial) ==
    IF order = <<>> THEN files
    ELSE LET f == Head(order)
         IN  IF InsideArtifacts(f) THEN CopyScan(Tail(order), files, fail, partial)
             ELSE LET target == _copy_unique(f.name, TargetNames(files))
                      after == copy2(f, target, files, fail, partial)
                  IN  IF f \in fail
                      THEN CopyScan(RestAfterFailure(Tail(order)), after, fail, partial)
                      ELSE CopyScan(Tail(order), after, fail, partial)

\* the orders in which rglob may yield the files of S
Orders(S) ==
    {o \in [1..Cardinality(S) -> S] : \A i, j \in 1..Cardinality(S) : o[i] = o[j] => i = j}

\* what rglob(pattern) finds: files outside and inside artifacts/
Scanned(files, i) ==
    {f \in tree \cup {[dir |-> h.dir, name |-> h.name] : h \in files} :
        Matches(f.name, patterns[i])}

CopyIdle == adir = [files |-> {}, n |-> 0, failed |-> {}]

\* the job directory always has its files that match no pattern
CopyInit ==
    /\ tree \in {t \in SUBSET TreeFiles :
                   \A f \in TreeFiles : (\A i \in 1..Len(patterns) : ~Matches(f.name, patterns[i]))
                                           => f \in t}
    /\ artifacts = {} /\ ncollect = 0
    /\ \E old \in SUBSET OldFiles :
         adir = [files |-> {Old(f) : f \in old}, n |-> 0, failed |-> {}]

\* one collect_artifacts call; failed: the files whose copy failed in it
CollectInto ==
    /\ adir.n < MaxScans
    /\ \E o1 \in Orders(Scanned(adir.files, 1)), o2 \in Orders(Scanned(adir.files, 2)) :
       \E fail \in SUBSET {f \in tree : \E i \in 1..2 : Matches(f.name, patterns[i])} :
       \E partial \in SUBSET fail :
         adir' = [files |-> CopyScan(o1 \o o2, adir.files, fail, partial),
                  n |-> adir.n + 1, failed |-> fail]
    /\ UNCHANGED <<lifeVars, fileVars, artVars, sweepVars, storeVars, destroyVars, gitVars, killVars>>

----------------------------------------------------------------------------
(* stop_job among several jobs: jobs._find_runner_pids and the process      *)
(* table. A command line is the sequence of its characters, the path of     *)
(* run_job.sh standing as one character.                                    *)

RunJobSh == "/opt/autobuild/runner/run_job.sh"

\* ids of the jobs on the host; 1 is a prefix of 12
HostJobs == {1, 2, 12}

\* pids a runner may get; 12 is also a job id
HostPids == {12, 40, 41}

\* cmd = ["/opt/autobuild/runner/run_job.sh", str(job_id)]
CmdLine(j) == <<RunJobSh, " ">> \o Decimal(j)

\* search_term = f"/opt/autobuild/runner/run_job.sh {job_id}"
search_term(job_id) == <<RunJobSh, " ">> \o Decimal(job_id)

\* pgrep -f: the pattern is searched anywhere in the command line
Found(pattern, line) ==
    \E i \in 1..(Len(line) - Len(pattern) + 1) :
        SubSeq(line, i, i + Len(pattern) - 1) = pattern

\* line.split() of a line of "ps -eo pid,args"
PsFields(p) == <<Decimal(p.pid), <<RunJobSh>>, Decimal(p.job)>>

\* "/opt/autobuild/runner/run_job.sh" in line and str(job_id) in line.split()
PsMatch(job_id, p) == \E i \in 1..Len(PsFields(p)) : PsFields(p)[i] = Decimal(job_id)

\* _find_runner_pids over the process table ps of the whole host
_find_runner_pids_among(job_id, ps) ==
    {p.pid : p \in {q \in ps : Found(search_term(job_id), CmdLine(q.job))}}
      \cup {p.pid : p \in {q \in ps : PsMatch(job_id, q)}}

\* pids = {spec runner_pid} | _find_runner_pids(job_id)
StopTargets(job_id, h) ==
    {h.runner_pid[job_id][i] : i \in 1..Len(h.runner_pid[job_id])}
      \cup _find_runner_pids_among(job_id, h.ps)

\* the processes of the table: each job has no runner or one, pids differ
HostTables ==
    {ps \in SUBSET [pid : HostPids, job : HostJobs] :
        \A p, q \in ps : (p.pid = q.pid \/ p.job = q.job) => p = q}

KillIdle == host = <<>>

\* every job is running; job.json holds its runner's pid, or none
KillInit ==
    \E ps \in HostTables, recorded \in SUBSET HostJobs :
        host = [ps |-> ps,
                status |-> [j \in HostJobs |-> STATUS_RUNNING],
                exit_code |-> [j \in HostJobs |-> <<>>],
                runner_pid |-> [j \in HostJobs |->
                    IF j \in recorded /\ \E p \in ps : p.job = j
                    THEN <<(CHOOSE p \in ps : p.job = j).pid>> ELSE <<>>],
                signalled |-> {},
                stops |-> {}]

\* stop_job(job_id) to its return: every target pid is signalled and gone
\* within the wait; then the row and job.json of job_id are written
StopJob(job_id) ==
    /\ job_id \notin host.stops
    /\ LET pids == StopTargets(job_id, host)
           hit == {p \in host.ps : p.pid \in pids}
       IN  host' = IF hit = {}
                   THEN [host EXCEPT !.stops = @ \cup {job_id}, !.signalled = {}]
                   ELSE [host EXCEPT
                           !.ps = @ \ hit,
                           !.status[job_id] = STATUS_FAILED,
                           !.exit_code[job_id] = <<ExitUserStop>>,
                           !.runner_pid[job_id] = <<>>,
                           !.signalled = hit,
                           !.stops = @ \cup {job_id}]
    /\ UNCHANGED <<lifeVars, fileVars, artVars, sweepVars, storeVars, destroyVars, gitVars, copyVars>>

StopSome == \E j \in HostJobs : StopJob(j)

----------------------------------------------------------------------------
(* Specifications *)

ArtIdle == tree = {} /\ artifacts = {} /\ ncollect = 0

SweepIdle == jobsTab = <<>> /\ swp = IdleSweep

FileIdle ==
    /\ dirent = [job |-> 0, tmp |-> 0]
    /\ inode = [i \in Inodes |-> <<>>]
    /\ specLock = 0
    /\ wr = [t \in Writers |-> IdleWriter]

Init == LifeInit /\ FileIdle /\ ArtIdle /\ SweepIdle /\ StoreIdle /\ DestroyIdle /\ GitIdle /\ CopyIdle /\ KillIdle

Next == LifeNext

Spec == Init /\ [][Next]_vars

\* One launch of the job and no retry request
RunNext == Submit \/ Launcher \/ Watcher \/ Entrypoint \/ Stop

\* stop_job runs to its return, the watcher keeps ticking, the launcher runs
\* to its return. Nothing is assumed of the entrypoint.
StopSteps == StopTerm \/ StopWait \/ StopKill \/ StopDb \/ StopSpec

FairSpec ==
    /\ Init /\ [][RunNext]_vars
    /\ WF_vars(StopSteps) /\ WF_vars(Watcher) /\ WF_vars(Launcher)

\* collect_artifacts with files already in artifacts/ and failing copies
InitCopy ==
    LifeInit /\ FileIdle /\ CopyInit /\ SweepIdle /\ StoreIdle /\ DestroyIdle /\ GitIdle /\ KillIdle

SpecCopy == InitCopy /\ [][CollectInto]_vars

\* stop_job calls on a host with several running jobs
InitKill ==
    LifeInit /\ FileIdle /\ ArtIdle /\ SweepIdle /\ StoreIdle /\ DestroyIdle /\ GitIdle /\ CopyIdle /\ KillInit

SpecKill == InitKill /\ [][StopSome]_vars

\* Repeated collection of one job's artifacts
InitArt == LifeInit /\ FileIdle /\ ArtInit /\ SweepIdle /\ StoreIdle /\ DestroyIdle /\ GitIdle /\ CopyIdle /\ KillIdle

SpecArt == InitArt /\ [][Collect]_vars

\* Housekeeping sweeps over the jobs table
InitSweep == LifeInit /\ FileIdle /\ ArtIdle /\ SweepInit /\ StoreIdle /\ DestroyIdle /\ GitIdle /\ CopyIdle /\ KillIdle

SpecSweep == InitSweep /\ [][SweepNext]_vars

\* Housekeeping sweeps in which a job's delete may raise
SpecSweepFault == InitSweep /\ [][SweepFaultNext]_vars

\* The periodic loop: after its sleep the next pass starts, and a started
\* pass runs to its end
FairSweep == InitSweep /\ [][PeriodicNext]_vars /\ WF_vars(PeriodicNext)

\* Sweeps while users pin, delete and retry jobs and the supervisor launches
\* and watches them
InitDestroy ==
    LifeInit /\ FileIdle /\ ArtIdle /\ SweepIdle /\ StoreIdle /\ DestroyInit /\ GitIdle /\ CopyIdle /\ KillIdle

SpecDestroy == InitDestroy /\ [][DestroyNext]_vars

\* Calls of update_job_status on a table of several rows
InitStore == LifeInit /\ FileIdle /\ ArtIdle /\ SweepIdle /\ StoreInit /\ DestroyIdle /\ GitIdle /\ CopyIdle /\ KillIdle

SpecStore == InitStore /\ [][UpdateStatus]_vars

\* setup_job_git_env called once on each choice of arguments
InitGit ==
    LifeInit /\ FileIdle /\ ArtIdle /\ SweepIdle /\ StoreIdle /\ DestroyIdle /\ GitInit /\ CopyIdle /\ KillIdle

SpecGit == InitGit /\ [][Provision]_vars

\* The writers of one job's job.json
InitFile == LifeInit /\ FileInit /\ ArtIdle /\ SweepIdle /\ StoreIdle /\ DestroyIdle /\ GitIdle /\ CopyIdle /\ KillIdle

SpecFile == InitFile /\ [][FileNext]_vars

----------------------------------------------------------------------------
(* C1: once a submission has inserted the job's row and returned, the row   *)
(* has status pending and job.json exists.  Stated of the step that         *)
(* inserts the row (the whole POST /new handler).                           *)
C1_SubmitLeavesPendingRowAndSpec ==
    [][(~row.present /\ row'.present)
         => (row'.status = STATUS_PENDING /\ doc'.present)]_vars

(* C2: stop_job with no runner_pid in the spec document and no matching     *)
(* process returns False and leaves the row, the spec document and the log  *)
(* as they were.                                                            *)
C2_StopNoPidNoChange ==
    [][(/\ stp.pc = "idle" /\ stp' # stp
        /\ load_job_spec(doc).runner_pid = <<>>
        /\ _find_runner_pids = {})
         => (/\ stp'.pc = "idle" /\ stp'.ret = <<FALSE>>
             /\ row' = row /\ doc' = doc /\ log' = log)]_vars

C2_Witness ==
    /\ row.present /\ row.status = STATUS_PENDING
    /\ stp.pc = "idle" /\ stp.ret = <<FALSE>>
    /\ doc.runner_pid = <<>> /\ _find_runner_pids = {}

(* C3: a stop of a running job whose child is alive leads to a state where  *)
(* the row is failed with exit code -9 and the child is gone.               *)
\* a stop is under way on a running job and has yet to signal the children
\* that were alive when it was called
C3_StopOnLive == stp.pc = "s_term" /\ stp.live # {} /\ stp.live \subseteq stp.todo

C3_ChildGone == \A p \in stp.live : proc[p].st # "running"

C3_RowStopped == row.status = STATUS_FAILED /\ row.exit_code = <<ExitUserStop>>

C4_RetryResetsThenLaunches ==
    /\ [](rty.pc \in {"r_spec", "r_launch"} => ENABLED (RetrySpec \/ RetryLaunch))
    /\ [][/\ (rty.pc = "idle" /\ rty'.pc # "idle")
             => (/\ rty'.pc = "r_spec"
                 /\ row'.status = STATUS_PENDING
                 /\ row'.started_at = <<>> /\ row'.finished_at = <<>>
                 /\ row'.exit_code = <<>>)
          /\ (rty.pc # "r_wait" /\ rty'.pc = "r_wait")
             => (/\ rty.pc = "r_launch"
                 /\ run[rty'.k].pc = "idle" /\ run'[rty'.k].pc = "l_begin")
          /\ (rty.pc # "idle" /\ rty'.pc = "idle")
             => (/\ rty.pc = "r_wait" /\ rty'.ret = <<TRUE>>
                 /\ run'[rty.k].pc \notin LauncherPcs \cup {"idle"})]_vars

C4_Witness ==
    /\ rty.pc = "r_wait" /\ run[rty.k].pc = "l_begin"
    /\ row.status = STATUS_PENDING /\ row.exit_code = <<>>
    /\ log["retry"] > 0

(* C5: when every thread has called the lock-guarded mutate and all calls   *)
(* have returned, the stored counter is its initial value (0) plus the      *)
(* number of threads.                                                       *)
C5_NoLostUpdate ==
    (\A t \in Writers : wr[t].kind = "mutate" /\ wr[t].pc = "done")
      => (dirent.job # 0 /\ inode[dirent.job] = <<MaxWriters>>)

C5_Witness ==
    /\ \A t \in Writers : wr[t].kind = "mutate" /\ wr[t].pc = "done" /\ wr[t].ret = <<TRUE>>
    /\ dirent.job # 0 /\ inode[dirent.job] = <<MaxWriters>>

(* C6: whenever job.json exists it holds a whole document, the previous or  *)
(* the new one, whichever writers are at work.                              *)
C6_ReaderSeesWholeDocument == dirent.job # 0 => inode[dirent.job] # <<>>

(* C7: with exactly one matching output file outside artifacts/, every      *)
(* collect_artifacts call keeps the files already collected and adds        *)
(* exactly one new name, so k calls leave exactly k files.                  *)
C7_OneMatching ==
    Cardinality({f \in tree : \E i \in 1..Len(patterns) : Matches(f.name, patterns[i])}) = 1

C7_EachCollectAddsOne ==
    [][(ncollect' # ncollect /\ C7_OneMatching)
         => (/\ artifacts \subseteq artifacts'
             /\ Cardinality(artifacts') = Cardinality(artifacts) + 1
             /\ Cardinality(artifacts') = ncollect')]_vars

C7_Witness ==
    /\ C7_OneMatching /\ ncollect = MaxCollect /\ Cardinality(artifacts) = MaxCollect
    /\ \E f \in tree : Numbered(f.name, MaxCollect - 1) \in artifacts

(* C8: a finished sweep with thresholds 0 < P < D has, for every job that   *)
(* was terminal and unpinned when the sweep began: left it as it was if its *)
(* age is below P; removed only its workspace and set is_pruned if its age  *)
(* is in [P, D) and it was not pruned; removed its directory and its row if *)
(* its age is D or more.                                                    *)
C8_SweepDone ==
    /\ swp.pc = "idle" /\ swp.n > 0
    /\ 0 < swp.prune_days /\ swp.prune_days < swp.delete_days

C8_PruneDeleteByAge ==
    C8_SweepDone =>
      \A j \in JobIds :
        LET b == swp.before[j]
            a == jobsTab[j]
        IN  (b.row /\ b.status \in {STATUS_SUCCESS, STATUS_FAILED} /\ ~b.pinned) =>
              /\ b.age < swp.prune_days => a = b
              /\ (swp.prune_days <= b.age /\ b.age < swp.delete_days /\ ~b.is_pruned)
                   => a = [b EXCEPT !.files = JobFiles \ {"workspace"}, !.is_pruned = TRUE]
              /\ b.age >= swp.delete_days => (~a.row /\ ~a.dir /\ a.files = {})

C8_Witness ==
    /\ C8_SweepDone
    /\ \E j, k \in JobIds :
         /\ swp.before[j].row /\ swp.before[j].age >= swp.delete_days /\ ~jobsTab[j].row
         /\ swp.before[k].age < swp.delete_days /\ ~swp.before[k].is_pruned
         /\ jobsTab[k].row /\ jobsTab[k].is_pruned /\ "workspace" \notin jobsTab[k].files

(* C9: a sweep leaves every job that is pinned, running or pending exactly  *)
(* as it found it, whatever the job's age and the thresholds.               *)
C9_Protected(b) == b.row /\ (b.pinned \/ b.status \in {STATUS_RUNNING, STATUS_PENDING})

C9_PinnedAndActiveUntouched ==
    \A j \in JobIds : C9_Protected(swp.before[j]) => jobsTab[j] = swp.before[j]

C9_Witness ==
    /\ swp.pc = "idle" /\ swp.n > 0 /\ swp.delete_days > 0
    /\ \E j, k \in JobIds :
         /\ swp.before[j].pinned /\ swp.before[j].status = STATUS_FAILED
         /\ swp.before[j].age >= swp.delete_days /\ jobsTab[j] = swp.before[j]
         /\ ~swp.before[k].pinned /\ swp.before[k].status = STATUS_RUNNING
         /\ swp.before[k].age >= swp.delete_days /\ jobsTab[k] = swp.before[k]

(* C10: the sentinel contract of exit codes: -1 is written only for a       *)
(* launch failure, -9 only by a user stop, 2 only for missing credentials,  *)
(* and every exit code the watcher records is >= 0.                         *)
C10_SentinelContract ==
    [][/\ \A k \in Pids :
            (run[k].pc = "w_write" /\ run'[k].pc = "end"
               /\ run[k].outcome.exit_code # <<>>)
              => run[k].outcome.exit_code[1] >= 0
       /\ (row'.exit_code = <<ExitLaunchFailure>> /\ row.exit_code # row'.exit_code)
            => (~row.present \/ \E k \in Pids : run[k].pc = "l_spawn" /\ run'[k].pc = "end")
       /\ (row'.exit_code = <<ExitUserStop>> /\ row.exit_code # row'.exit_code)
            => stp.pc = "s_db"
       /\ (row'.exit_code = <<ExitNoCredentials>> /\ row.exit_code # row'.exit_code)
            => (\E k \in Pids : run[k].pc = "l_spawn" /\ run'[k].pc = "end"
                                   /\ log'["token_missing"] > log["token_missing"])]_vars

(* C11: the row becomes success only by the write of a watcher whose        *)
(* collect_artifacts call for that run has already returned, so whenever    *)
(* the row shows success some run's collection is complete.                 *)
C11_CollectedBeforeSuccess ==
    /\ [](row.status = STATUS_SUCCESS => \E k \in Pids : run[k].collected)
    /\ [][(row'.status = STATUS_SUCCESS /\ row.status # STATUS_SUCCESS)
            => \E k \in Pids : /\ run[k].pc = "w_write" /\ run'[k].pc = "end"
                               /\ run[k].outcome.status = <<STATUS_SUCCESS>>
                               /\ run[k].collected]_vars

C11_Witness ==
    /\ row.status = STATUS_SUCCESS
    /\ \E k \in Pids : run[k].pc = "end" /\ run[k].collected

(* C12: each tick consults status file > exit-code file > process exit: a   *)
(* present terminal status file decides with its own fields; otherwise a    *)
(* present exit-code file decides, success iff the value is 0; otherwise    *)
(* the exit of the process decides.                                         *)
C12_Priority(sf, ef, p) ==
    IF sf # <<>> /\ sf[1].valid /\ Terminal(sf[1].status)
    THEN [status |-> <<sf[1].status>>, exit_code |-> sf[1].exit_code,
          finished_at |-> sf[1].finished_at]
    ELSE IF ef # <<>>
    THEN [status |-> IF ef[1].valid /\ ef[1].value = 0 THEN <<STATUS_SUCCESS>>
                                                       ELSE <<STATUS_FAILED>>,
          exit_code |-> <<IF ef[1].valid THEN ef[1].value ELSE -1>>,
          finished_at |-> <<"watch">>]
    ELSE IF p.st = "zombie"
    THEN [status |-> <<STATUS_FAILED>>, exit_code |-> p.rc, finished_at |-> <<"watch">>]
    ELSE NoOutcome

C12_TickFollowsPriority ==
    \A k \in Pids :
        run[k].pc = "w_poll"
          => PollDecision(statusFile, exitFile, proc[k]).outcome
               = C12_Priority(statusFile, exitFile, proc[k])

(* C13: a launch without usable credentials (both tokens missing or blank,  *)
(* or no entry produced by setup_job_git_env) marks the row failed with     *)
(* exit code 2 in the launcher itself, spawns no process and schedules no   *)
(* watcher.                                                                 *)
C13_NoUsableCredentials(primary, secondary) ==
    \/ strip(primary) = "" /\ strip(secondary) = ""
    \/ LauncherEntries(strip(primary), strip(secondary)) = <<>>

C13_NoCredentialsFailsWithoutSpawn ==
    [][\A k \in Pids :
         (run[k].pc = "l_spawn" /\ run'[k].pc # "l_spawn") =>
         \A primary \in TokenTexts, secondary \in TokenTexts, spawnOk \in BOOLEAN :
         (LaunchSpawnWith(k, primary, secondary, spawnOk)
            /\ C13_NoUsableCredentials(primary, secondary))
           => (/\ row'.status = STATUS_FAILED /\ row'.exit_code = <<ExitNoCredentials>>
               /\ proc' = proc
               /\ run'[k].pc = "end")]_vars

C13_Witness ==
    \E k \in Pids :
        /\ run[k].pc = "end" /\ proc[k] = NoProc /\ log["token_missing"] > 0
        /\ row.status = STATUS_FAILED /\ row.exit_code = <<ExitNoCredentials>>

(* C14: when opening the log or Popen fails, the launcher writes failed     *)
(* with exit code -1, schedules no watcher (the launch ends with no         *)
(* process), and returns normally to its caller (retry_job returns True).   *)
C14_SpawnFailureMarksFailed ==
    [][\A k \in Pids :
         (run[k].pc = "l_spawn" /\ run'[k].pc # "l_spawn") =>
         \A primary \in TokenTexts, secondary \in TokenTexts :
         (/\ LaunchSpawnWith(k, primary, secondary, FALSE)
          /\ ~TokensMissing(strip(primary), strip(secondary)))
           => (/\ row'.status = STATUS_FAILED /\ row'.exit_code = <<ExitLaunchFailure>>
               /\ proc' = proc
               /\ run'[k].pc = "end"
               /\ (rty.pc = "r_wait" /\ rty.k = k)
                    => (rty'.pc = "idle" /\ rty'.ret = <<TRUE>>))]_vars

C14_Witness ==
    \E k \in Pids :
        /\ run[k].pc = "end" /\ proc[k] = NoProc
        /\ row.status = STATUS_FAILED /\ row.exit_code = <<ExitLaunchFailure>>
        /\ rty.ret = <<TRUE>> /\ rty.k = k

(* C15: update_job_status overwrites exactly the columns whose argument was *)
(* supplied, leaves the other columns of that row as they were, and leaves  *)
(* every other row as it was.                                               *)
C15_Supplied(arg, old) == IF arg # <<>> THEN arg ELSE old

C15_UpdateFrame ==
    [][\A id \in JobIds, status \in StatusArgs, started_at \in TimeArgs,
          finished_at \in TimeArgs, exit_code \in ExitArgs :
         store' = UpdateWhere(store, id, status, started_at, finished_at, exit_code)
           => (/\ \A j \in JobIds \ {id} : store'[j] = store[j]
               /\ store'[id].present = store[id].present
               /\ store[id].present
                    => (/\ store'[id].status = status[1]
                        /\ store'[id].started_at = C15_Supplied(started_at, store[id].started_at)
                        /\ store'[id].finished_at = C15_Supplied(finished_at, store[id].finished_at)
                        /\ store'[id].exit_code = C15_Supplied(exit_code, store[id].exit_code))
               /\ ~store[id].present => store'[id] = store[id])]_vars

C15_Witness ==
    \E id \in JobIds, j \in JobIds :
        /\ id # j /\ store[j] = InsertRow
        /\ store[id].status = STATUS_FAILED /\ store[id].exit_code = <<>>
        /\ store[id].started_at = <<"t0">> /\ store[id].finished_at = <<"t1">>

(* C16: the routes' delete, the batch delete and the sweeper remove a row   *)
(* or a job directory only of a job that is not pinned and whose status is  *)
(* neither running nor pending.                                             *)
C16_DeleteOnlyUnprotected ==
    [][((job[TheJob].row /\ ~job'[TheJob].row) \/ (job[TheJob].dir /\ ~job'[TheJob].dir))
         => (/\ ~job[TheJob].pinned
             /\ job[TheJob].status \notin {STATUS_RUNNING, STATUS_PENDING})]_vars

C20_NoRowNoDirectory == ~job[TheJob].row => ~job[TheJob].dir

(* C17: the row's status changes only along the lifecycle: created pending, *)
(* pending -> running, running -> success or failed, success or failed ->   *)
(* pending; never from one terminal status to the other and never from      *)
(* pending straight to a terminal status.                                   *)
C17_Lifecycle(old, new) ==
    \/ old = STATUS_PENDING /\ new = STATUS_RUNNING
    \/ old = STATUS_RUNNING /\ Terminal(new)
    \/ Terminal(old) /\ new = STATUS_PENDING

C17_StatusFollowsLifecycle ==
    [][/\ (~row.present /\ row'.present) => row'.status = STATUS_PENDING
       /\ (row.present /\ row'.present /\ row'.status # row.status)
            => C17_Lifecycle(row.status, row'.status)]_vars

(* C18: every mutation of job.json, whether by start_job_runner, stop_job,  *)
(* retry_job, the sweeper or the prune routes, reads, changes and writes    *)
(* the document while its thread holds the job's lock, so two mutations     *)
(* never overlap.                                                           *)
C18_Mutating(t) ==
    wr[t].kind \in {"mutate", "route"} /\ wr[t].pc \in {"open", "write", "rename"}

C18_MutationsHoldLock == \A t \in Writers : C18_Mutating(t) => specLock = t

(* C21: a launch that has spawned its process writes running to the row     *)
(* first, then runner_pid and status running to job.json, and only then     *)
(* starts its watcher; it starts exactly one, as a task of the event loop   *)
(* or as a thread.                                                          *)
C21_OneWatcherAfterRecords ==
    /\ [](\A k \in Pids : /\ run[k].watchers <= 1
                          /\ run[k].pc \in {"w_poll", "w_write"} => run[k].watchers = 1)
    /\ [][\A k \in Pids :
            /\ (run[k].pc # "l_spawn" /\ run'[k].pc = "l_spawn")
                 => (run[k].pc = "l_begin" /\ row'.status = STATUS_RUNNING)
            /\ (run[k].pc # "l_mark" /\ run'[k].pc = "l_mark")
                 => (run[k].pc = "l_spawn" /\ proc'[k].st = "running"
                       /\ run'[k].watchers = 0)
            /\ (run'[k].watchers # run[k].watchers)
                 => (/\ run[k].pc = "l_mark" /\ run'[k].pc = "w_poll"
                     /\ run'[k].watchers = 1
                     /\ doc'.present /\ doc'.runner_pid = <<k>>
                     /\ doc'.status = <<STATUS_RUNNING>>)]_vars

C21_Witness ==
    \E k \in Pids :
        /\ run[k].pc = "w_poll" /\ run[k].watchers = 1
        /\ doc.runner_pid = <<k>> /\ doc.status = <<STATUS_RUNNING>>
        /\ row.status = STATUS_RUNNING /\ proc[k].st = "running"

(* C22: once the process of a launch has exited, or an exit-code file or a  *)
(* terminal status file is there, the polling watcher of that launch        *)
(* eventually writes a terminal status to the row and returns, whatever     *)
(* status.json holds.                                                       *)
C22_Signalled(k) ==
    /\ run[k].pc = "w_poll"
    /\ \/ proc[k].st = "zombie"
       \/ exitFile # <<>>
       \/ statusFile # <<>> /\ statusFile[1].valid /\ Terminal(statusFile[1].status)

C22_WatcherRunsToTerminal ==
    \A k \in Pids : C22_Signalled(k) ~> (run[k].pc = "end" /\ Terminal(row.status))

(* C23: a tick that finds the process exited and neither status.json nor    *)
(* exit_code appends the unexpected-exit note to the log and has the        *)
(* watcher write failed with the return code of the process, 0 included;    *)
(* what a watcher has decided is what it writes.                            *)
C23_ExitedEarlyIsFailed ==
    [][\A k \in Pids :
         /\ (/\ run[k].pc = "w_poll" /\ run'[k].pc = "w_write"
             /\ statusFile = <<>> /\ exitFile = <<>> /\ proc[k].st = "zombie")
              => (/\ log'["unexpected_exit"] = log["unexpected_exit"] + 1
                  /\ run'[k].outcome.status = <<STATUS_FAILED>>
                  /\ run'[k].outcome.exit_code = proc[k].rc /\ proc[k].rc # <<>>
                  /\ ~run'[k].collected)
         /\ (run[k].pc = "w_write" /\ run'[k].pc = "end")
              => (/\ row'.status = run[k].outcome.status[1]
                  /\ run[k].outcome.exit_code # <<>>
                       => row'.exit_code = run[k].outcome.exit_code)]_vars

C23_Witness ==
    \E k \in Pids :
        /\ run[k].pc = "end" /\ log["unexpected_exit"] > 0 /\ proc[k].st = "reaped"
        /\ row.status = STATUS_FAILED /\ row.exit_code = <<0>>
        /\ statusFile = <<>> /\ exitFile = <<>>

(* C24: when stop_job and the watcher both write the row, the row holds the *)
(* status, exit_code and finished_at of the one that wrote last: a row that *)
(* carries stop's finished_at carries stop's status failed and stop's       *)
(* exit_code -9 with it, never the watcher's status.                        *)
C24_LastWriteWins ==
    (row.present /\ row.finished_at = <<"stop">>)
        => (row.status = STATUS_FAILED /\ row.exit_code = <<ExitUserStop>>)

(* C25: stop_job returns True only through its recording steps: the row has *)
(* been written failed with exit_code -9 and a finished_at, and on return   *)
(* job.json has no runner_pid, status failed and a stopped_at, and the log  *)
(* has one more "stopped by user" line. It gets there only with stopped set,*)
(* and stopped is set only for a pid that existed when SIGTERM was sent.    *)
C25_StopSuccessRecorded ==
    [][/\ (stp'.ret = <<TRUE>> /\ stp.ret # <<TRUE>>)
            => /\ stp.pc = "s_spec" /\ stp'.pc = "idle"
               /\ doc'.present
               /\ doc'.runner_pid = <<>>
               /\ doc'.status = <<STATUS_FAILED>>
               /\ doc'.stopped_at # <<>>
               /\ log'["stopped"] = log["stopped"] + 1
       /\ (stp.pc # "s_spec" /\ stp'.pc = "s_spec")
            => /\ stp.pc = "s_db"
               /\ row'.status = STATUS_FAILED
               /\ row'.exit_code = <<ExitUserStop>>
               /\ row'.finished_at # <<>>
       /\ (stp.pc # "s_db" /\ stp'.pc = "s_db") => stp'.stopped
       /\ (stp'.stopped /\ ~stp.stopped)
            => (stp.pc \in {"s_wait", "s_kill"} /\ stp.cur \in Pids)
       /\ (stp.pc # "s_wait" /\ stp'.pc = "s_wait")
            => (stp.pc = "s_term" /\ stp'.cur \in stp.todo /\ _is_alive(stp'.cur))
       /\ (stp.pc # "s_kill" /\ stp'.pc = "s_kill") => stp.pc = "s_wait"]_vars

C25_Witness ==
    /\ stp.pc = "idle"
    /\ stp.ret = <<TRUE>>
    /\ row.status = STATUS_FAILED
    /\ row.exit_code = <<ExitUserStop>>
    /\ doc.runner_pid = <<>>
    /\ doc.stopped_at # <<>>
    /\ log["stopped"] > 0

(* C26: for each target pid stop_job sends SIGTERM first, then polls the    *)
(* pid at most MaxPolls times, and sends SIGKILL only after every one of    *)
(* these polls found the pid alive; a poll that finds the pid gone ends the *)
(* wait without a kill; and every stop_job call returns.                    *)
C26_TermWaitKill ==
    /\ [](/\ stp.polls <= MaxPolls
          /\ stp.pc = "s_kill" => stp.polls = MaxPolls)
    /\ [][/\ (stp.pc # "s_wait" /\ stp'.pc = "s_wait")
               => (stp.pc = "s_term" /\ _is_alive(stp'.cur) /\ stp'.polls = 0)
          /\ (stp.pc = "s_wait" /\ stp'.pc = "s_wait" /\ stp' # stp)
               => (_is_alive(stp.cur) /\ stp'.polls = stp.polls + 1)
          /\ (stp.pc = "s_wait" /\ stp' # stp /\ ~_is_alive(stp.cur))
               => (stp'.pc \notin {"s_wait", "s_kill"} /\ proc' = proc)
          /\ (stp.pc # "s_kill" /\ stp'.pc = "s_kill")
               => (stp.pc = "s_wait" /\ stp'.cur = stp.cur /\ _is_alive(stp.cur))
          /\ \A p \in Pids :
               (proc'[p].rc = <<-SIGKILL>> /\ proc[p].rc # <<-SIGKILL>>)
                   => (stp.pc = "s_kill" /\ stp.cur = p)]_vars
    /\ ((stp.pc # "idle") ~> (stp.pc = "idle"))

C26_Witness ==
    \E p \in Pids :
        /\ stp.pc = "idle" /\ stp.ret = <<TRUE>>
        /\ proc[p].rc = <<-SIGKILL>>

C28_IndependentThresholds ==
    swp.n > 0 =>
      /\ (swp.prune_days = 0 /\ swp.delete_days = 0)
           => (swp.pc = "idle" /\ jobsTab = swp.before)
      /\ swp.delete_days = 0
           => \A j \in JobIds :
                swp.before[j].row => (jobsTab[j].row /\ jobsTab[j].dir)
      /\ swp.prune_days = 0
           => \A j \in JobIds :
                jobsTab[j].row => /\ jobsTab[j].files = swp.before[j].files
                                  /\ jobsTab[j].is_pruned = swp.before[j].is_pruned

C28_Witness ==
    /\ swp.pc = "idle" /\ swp.n > 0
    /\ swp.delete_days = 0 /\ swp.prune_days > 0
    /\ \E j \in JobIds :
         /\ swp.before[j].age >= 30 /\ ~swp.before[j].is_pruned
         /\ jobsTab[j].row /\ jobsTab[j].dir /\ jobsTab[j].is_pruned
         /\ "workspace" \notin jobsTab[j].files

(* C29: a sweep that follows a finished sweep with the same thresholds, and *)
(* nothing in between, calls neither _prune_workspace nor _delete_job: a    *)
(* job already marked is_pruned is not pruned again, and no row, directory  *)
(* or job.json changes.                                                     *)
C29_Repeated ==
    swp.n >= 2 /\ <<swp.prune_days, swp.delete_days>> = swp.last

C29_SweepIdempotent ==
    C29_Repeated => (swp.ops = 0 /\ jobsTab = swp.before)

C29_Witness ==
    /\ C29_Repeated /\ swp.pc = "idle"
    /\ swp.prune_days > 0 /\ swp.delete_days > swp.prune_days
    /\ \E j, k \in JobIds :
         /\ jobsTab[j].row /\ jobsTab[j].is_pruned /\ jobsTab[j].age >= swp.prune_days
         /\ ~jobsTab[k].row

(* C30: when the helper of one job raises during a sweep, the sweep still   *)
(* treats every other job as a sweep without the failure does: at the end   *)
(* each job that did not fail is as the loop body leaves it.                *)
C30_Row(j) ==
    [id |-> j, age |-> swp.before[j].age, pinned |-> swp.before[j].pinned,
     status |-> swp.before[j].status]

C30_Expected(j) ==
    IF swp.before[j].row
    THEN SweepOne(swp.before, C30_Row(j), swp.prune_days, swp.delete_days)[j]
    ELSE swp.before[j]

C30_FailureSkipsOnlyThatJob ==
    (swp.pc = "idle" /\ swp.n > 0)
        => \A j \in JobIds \ swp.failed : jobsTab[j] = C30_Expected(j)

(* C31: a pass that fails (settings or query unavailable, or a job's delete *)
(* raising) does not end the periodic loop: whatever happened in a pass,    *)
(* the next pass begins, for as many passes as the bound allows.            *)
C31_PassesKeepComing ==
    /\ [](swp.pc \in {"idle", "scan"})
    /\ \A i \in 0..(MaxSweeps - 1) : (swp.n = i) ~> (swp.n = i + 1)

C31_Witness ==
    /\ swp.n >= 2
    /\ \E j \in JobIds : jobsTab[j].row /\ ~jobsTab[j].dir

(* C32: setup_job_git_env writes one line per distinct usable triple: a     *)
(* triple without host, username or token gives no line, hosts are written *)
(* without scheme and trailing slash, no line is written twice, the         *)
(* fallback identity is used only when no triple is usable, and the env     *)
(* override is returned exactly when a line was written.                    *)
C32_Triples(settings) ==
    { <<Host(TRUE, "git.ami.com", FALSE), settings.gitlab_username_primary,
        settings.gitlab_token_primary>>,
      <<Host(TRUE, "git.ami.com.tw", FALSE), settings.gitlab_username_secondary,
        settings.gitlab_token_secondary>>,
      <<settings.gitlab_host, settings.gitlab_username, settings.gitlab_token>> }

C32_Usable(t) == t[1] # NoHost /\ NormHost(t[1]) # "" /\ t[2] # "" /\ t[3] # ""

C32_Lines(settings) ==
    { <<t[2], t[3], NormHost(t[1])>> : t \in {u \in C32_Triples(settings) : C32_Usable(u)} }

C32_Written == {git.entries[i] : i \in 1..Len(git.entries)}

C32_FallbackLine ==
    <<IF git.fallback_username # "" THEN git.fallback_username ELSE "oauth2",
      git.fallback_token, "gitlab.example.com">>

C32_UsableLinesOnly ==
    git.pc = "done" =>
      /\ C32_Lines(git.settings) # {} => C32_Written = C32_Lines(git.settings)
      /\ C32_Lines(git.settings) = {}
           => C32_Written = (IF git.fallback_token # "" THEN {C32_FallbackLine} ELSE {})
      /\ (git.env # {}) <=> (git.entries # <<>>)

C32_NoLineTwice ==
    git.pc = "done" => Len(git.entries) = Cardinality(C32_Written)

C32_OneLinePerDistinctEntry == C32_UsableLinesOnly /\ C32_NoLineTwice

(* C33: retry_job whose reset of the row fails returns False and changes    *)
(* nothing: no row, job.json, log or launch. Once the row is reset the call *)
(* always goes on, whether the removal of the old workspace worked or not:  *)
(* job.json loses runner_pid and gets status pending and last_retry_at, the *)
(* log gets the retry line, and start_job_runner is called.                 *)
C33_RetryErrorHandling ==
    [][/\ (rty.pc = "idle" /\ rty' # rty /\ rty'.pc = "idle")
            => /\ rty'.ret = <<FALSE>>
               /\ row' = row /\ doc' = doc /\ log' = log /\ run' = run
       /\ (rty.pc = "r_spec" /\ rty' # rty)
            => /\ rty'.pc = "r_launch"
               /\ doc'.present /\ doc'.runner_pid = <<>>
               /\ doc'.status = <<STATUS_PENDING>>
               /\ doc'.last_retry_at # <<>>
               /\ log'["retry"] = log["retry"] + 1
       /\ (rty.pc = "r_launch" /\ rty' # rty)
            => /\ rty'.pc = "r_wait"
               /\ run[rty'.k].pc = "idle" /\ run'[rty'.k].pc = "l_begin"]_vars

C33_Witness ==
    /\ rty.pc = "idle" /\ rty.ret = <<FALSE>>
    /\ Terminal(row.status)
    /\ log["retry"] = 0
    /\ \A k \in Pids : k > 1 => run[k].pc = "idle"

\* No launcher, watcher, stop or retry step of the job is in progress
C34_Quiescent ==
    /\ \A k \in Pids : run[k].pc \in {"idle", "end", "crashed"}
    /\ stp.pc = "idle"
    /\ rty.pc = "idle"

(* C34: whenever no launcher, watcher, stop or retry step of the job is in  *)
(* progress, the status in job.json equals the status of the jobs row.      *)
C34_SpecMirrorsStore ==
    (C34_Quiescent /\ row.present /\ doc.present) => doc.status = <<row.status>>

\* the files a call has created in artifacts/
C35_New == adir'.files \ adir.files

\* the matching files outside artifacts/
C35_Sources ==
    {f \in tree : ~InsideArtifacts(f) /\ \E i \in 1..Len(patterns) : Matches(f.name, patterns[i])}

(* C35: a collect_artifacts call leaves every file that was in artifacts/   *)
(* there with its content; what it adds are copies of matching files from   *)
(* outside artifacts/, each under its own name or, when that name was       *)
(* taken, under stem_N.suffix for the first N >= 1 not taken; and every     *)
(* matching file whose own copy did not fail has been copied, whichever     *)
(* other copies failed.                                                     *)
C35_CollectKeepsAndContinues ==
    [][adir'.n # adir.n
        => /\ adir.files \subseteq adir'.files
           /\ \A h \in C35_New :
                /\ h.dir = "artifacts"
                /\ h.from # <<>> /\ h.from[1] \in C35_Sources
                /\ \/ h.name = h.from[1].name
                   \/ \E c \in 1..(Cardinality(adir'.files) + 1) :
                        /\ h.name = Numbered(h.from[1].name, c)
                        /\ h.from[1].name \in TargetNames(adir'.files)
                        /\ \A b \in 1..(c - 1) :
                             Numbered(h.from[1].name, b) \in TargetNames(adir'.files)
           /\ \A f \in C35_Sources \ adir'.failed :
                \E h \in C35_New : h.from = <<f>> /\ h.whole]_vars

\* a second call over a directory that had old files, in which one copy
\* failed, one old name forced a numbered copy, and another file was copied
C35_Witness ==
    /\ adir.n = 2
    /\ adir.failed # {} /\ adir.failed # C35_Sources
    /\ \E h \in adir.files : h.from = <<>> /\ h.dir = "artifacts"
    /\ \E h \in adir.files : h.from # <<>> /\ h.whole /\ h.name # h.from[1].name
    /\ \E h \in adir.files : ~h.whole

(* C36: the watcher of a launch made by retry_job decides to finalize from  *)
(* status.json or exit_code, while that launch's process is running, only   *)
(* if that process has written the file.                                    *)
C36_FinalizedFromOwnSignals ==
    [][\A k \in Pids :
         (/\ k > 1
          /\ run[k].pc = "w_poll" /\ run'[k].pc = "w_write"
          /\ run'[k].tier \in {"status", "exit"}
          /\ proc[k].st = "running")
         => run'[k].tier \in proc[k].wrote]_vars

\* the launches whose watcher is polling or finalizing
C37_Watching == {k \in Pids : run[k].pc \in {"w_poll", "w_write"}}

\* a launch later than k has been requested or made
C37_LaterLaunch(k) ==
    \/ rty.pc \in {"r_spec", "r_launch"}
    \/ \E j \in Pids : j > k /\ run[j].pc # "idle"

(* C37: at most one watcher of the job is polling or finalizing, and a      *)
(* watcher that finalizes while a later launch has been requested or made   *)
(* and the row is pending or running leaves the row as it is.               *)
C37_OneWatcherOwnLaunch ==
    [][/\ Cardinality(C37_Watching') <= 1
       /\ \A k \in Pids :
            (/\ run[k].pc = "w_write" /\ run'[k].pc # "w_write"
             /\ C37_LaterLaunch(k)
             /\ row.status \in {STATUS_PENDING, STATUS_RUNNING})
            => row' = row]_vars

(* C38: stop_job(j) signals only runner processes of job j, and leaves the  *)
(* row and the recorded pid of every other job as they were.                *)
C38_StopTouchesOnlyItsJob ==
    [][\A j \in HostJobs :
         (j \in host'.stops /\ j \notin host.stops)
         => /\ \A p \in host'.signalled : p.job = j
            /\ \A k \in HostJobs \ {j} :
                 /\ host'.status[k] = host.status[k]
                 /\ host'.exit_code[k] = host.exit_code[k]
                 /\ host'.runner_pid[k] = host.runner_pid[k]]_vars

(* C39: a jobs row whose status is pending or running has no exit_code and  *)
(* no finished_at.                                                          *)
C39_LiveRowHasNoResult ==
    (row.present /\ row.status \in {STATUS_PENDING, STATUS_RUNNING})
        => (row.exit_code = <<>> /\ row.finished_at = <<>>)

(* C40: a row that a submission has inserted as pending eventually has      *)
(* status running (handed to start_job_runner) or failed.                   *)
C40_PendingEnds ==
    (row.present /\ row.status = STATUS_PENDING)
        ~> (row.present /\ row.status \in {STATUS_RUNNING, STATUS_FAILED})
====
